---- MODULE Spec2Model ----
(***************************************************************************)
(* Model of the label-size resolution and catalog code of label_web:       *)
(* implementation_cups.implementation (dimension cascade, media format     *)
(* conversion, catalog merge, print_label), brother_ql_web (label context, *)
(* create_label_im, settings save) and                                     *)
(* configuration_management.filter_label_sizes_for_printer.                *)
(*                                                                         *)
(* Strings that the code matches with regular expressions are sequences    *)
(* of tokens: a number token carries its integer part i and one optional   *)
(* fractional digit f (f = -1: no fractional part); every other token is   *)
(* a piece of text named by k.  Python floats are modelled as exact        *)
(* rationals (numerator over a fixed denominator).                         *)
(***************************************************************************)
EXTENDS Integers, Sequences, FiniteSets, TLC

VARIABLES CONFIG, cups, selected_printer, op, args, result, backlog,
          initialization_errors, server, PRINTERS, LABEL_SIZES, FONTS, CONFIG_ERRORS

\* the errors of the global instance, the server named to libcups by
\* cups.setServer, and the module globals of brother_ql_web
globals == <<initialization_errors, server, PRINTERS, LABEL_SIZES, FONTS, CONFIG_ERRORS>>

vars == <<CONFIG, cups, selected_printer, op, args, result, backlog, globals>>

(***************************************************************************)
(* Bounds of the model                                                     *)
(***************************************************************************)
MaxMedia == 2      \* length of the print server's media-supported list
MaxSizes == 2      \* number of configured LABEL_SIZES entries
MaxEnabled == 2    \* length of a printer's ENABLED_SIZES allow-list

(***************************************************************************)
(* Program constants                                                       *)
(***************************************************************************)
POINTS_PER_INCH == 72
DEFAULT_DPI == 203
DEFAULT_WIDTH == 300
DEFAULT_HEIGHT == 200

None == "None"

(***************************************************************************)
(* Tokens and identifiers                                                  *)
(***************************************************************************)
N(i) == [k |-> "num", i |-> i, f |-> -1]
D(i, f) == [k |-> "num", i |-> i, f |-> f]
T(s) == [k |-> s, i |-> 0, f |-> -1]

IsNum(t) == t.k = "num"
IsSpace(t) == t.k = " "

\* float(w) of a number token, in tenths
Tenths(t) == t.i * 10 + (IF t.f < 0 THEN 0 ELSE t.f)

\* str.lower() on a unit token
Lower(u) ==
    CASE u = "IN" -> "in"
      [] u = "MM" -> "mm"
      [] u = "CM" -> "cm"
      [] OTHER -> u

Custom == T("Custom.")

\* The size identifiers requests and configurations are drawn from
Id_4x6in == <<N(4), T("x"), N(6), T("in")>>
Id_Custom4x6in == <<Custom, N(4), T("x"), N(6), T("in")>>
Id_4sx6sin == <<N(4), T(" "), T("x"), T(" "), N(6), T(" "), T("in")>>
Id_62 == <<N(62)>>
Id_na4x6 == <<T("na_index-"), N(4), T("x"), N(6), T("_"), N(4), T("x"), N(6), T("in")>>
Id_w62h29 == <<T("oe_w62h29_"), D(2, 4), T("x"), D(1, 1), T("in")>>
Id_oe62 == <<T("oe_dk-"), N(62)>>
Id_62x29mm == <<N(62), T("x"), N(29), T("mm")>>
Id_254mm == <<D(25, 4), T("x"), D(25, 4), T("mm")>>
Id_1x1in == <<N(1), T("x"), N(1), T("in")>>
Id_0x6in == <<N(0), T("x"), N(6), T("in")>>
Id_288x144 == <<N(288), T("x"), N(144)>>
Id_288x144pt == <<N(288), T("x"), N(144), T("pt")>>
Id_Custom8x4cm == <<Custom, N(8), T("x"), N(4), T("cm")>>

Id_Custom62 == <<Custom, N(62)>>
Id_CustomCustom62 == <<Custom, Custom, N(62)>>
Id_4X6IN == <<N(4), T("X"), N(6), T("IN")>>
Id_45x65in == <<D(4, 5), T("x"), D(6, 5), T("in")>>

SizeIds ==
    { Id_4x6in, Id_Custom4x6in, Id_4sx6sin, Id_62, Id_na4x6, Id_w62h29, Id_oe62,
      Id_62x29mm, Id_254mm, Id_1x1in, Id_0x6in, Id_288x144, Id_288x144pt,
      Id_Custom8x4cm }

(***************************************************************************)
(* Regular expressions                                                     *)
(***************************************************************************)
NoMatch == [ok |-> FALSE, w |-> N(0), h |-> N(0), unit |-> None]

RECURSIVE SkipSpaces(_, _)
\* \s* : the first position at or after i that does not hold whitespace
SkipSpaces(s, i) ==
    IF i <= Len(s) /\ IsSpace(s[i]) THEN SkipSpaces(s, i + 1) ELSE i

\* PARSEABLE_SIZE_PATTERN anchored at position i, with re.IGNORECASE
ParseableAt(s, i) ==
    IF ~(i <= Len(s) /\ IsNum(s[i])) THEN NoMatch
    ELSE LET ix == SkipSpaces(s, i + 1) IN
         IF ~(ix <= Len(s) /\ s[ix].k \in {"x", "X"}) THEN NoMatch
         ELSE LET ih == SkipSpaces(s, ix + 1) IN
              IF ~(ih <= Len(s) /\ IsNum(s[ih])) THEN NoMatch
              ELSE LET iu == SkipSpaces(s, ih + 1) IN
                   [ok |-> TRUE, w |-> s[i], h |-> s[ih],
                    unit |-> IF iu <= Len(s) /\ Lower(s[iu].k) \in {"in", "mm", "cm"}
                             THEN s[iu].k ELSE None]

RECURSIVE SearchParseable(_, _)
SearchParseable(s, i) ==
    IF i > Len(s) THEN NoMatch
    ELSE IF ParseableAt(s, i).ok THEN ParseableAt(s, i)
    ELSE SearchParseable(s, i + 1)

\* re.search(PARSEABLE_SIZE_PATTERN, s, re.IGNORECASE)
PARSEABLE_SIZE_PATTERN(s) == SearchParseable(s, 1)

\* r'(\d+(?:\.\d+)?)[xX](\d+(?:\.\d+)?)(in|mm)' anchored at position i
MediaNameAt(s, i) ==
    IF /\ i + 3 <= Len(s)
       /\ IsNum(s[i])
       /\ s[i + 1].k \in {"x", "X"}
       /\ IsNum(s[i + 2])
       /\ s[i + 3].k \in {"in", "mm"}
    THEN [ok |-> TRUE, w |-> s[i], h |-> s[i + 2], unit |-> s[i + 3].k]
    ELSE NoMatch

RECURSIVE SearchMediaName(_, _)
SearchMediaName(s, i) ==
    IF i > Len(s) THEN NoMatch
    ELSE IF MediaNameAt(s, i).ok THEN MediaNameAt(s, i)
    ELSE SearchMediaName(s, i + 1)

\* re.search of the media-name pattern (case-sensitive)
MediaNamePattern(s) == SearchMediaName(s, 1)

(***************************************************************************)
(* Values returned by the dimension functions                              *)
(***************************************************************************)
Px(w, h) == [kind |-> "px", w |-> w, h |-> h]
\* tuple() of a record-shaped entry: the pair of its key names
\* ('dimensions', 'offset'), each stood for by its rank in string order
KeyNames == [kind |-> "keys", w |-> 1, h |-> 2]
NoDims == [kind |-> "none", w |-> 0, h |-> 0]
Raised == [kind |-> "raise", w |-> 0, h |-> 0]

(***************************************************************************)
(* The print server (CUPS).  One printer, "p1", is known to the server;    *)
(* its attributes are media_supported, media_sizes (hundredths of mm) and  *)
(* resolution (the tuple (xdpi, ydpi, units), empty when missing).         *)
(***************************************************************************)
CupsPrinter == "p1"

MediaSize(x, y) == [x |-> x, y |-> y]

\* cups.Connection(): raises when the server is unreachable
ConnRaises(c) == ~c.up

\* conn.getPrinterAttributes(name, ...): raises for an unreachable server
\* and for a printer the server does not know
AttrsRaise(c, name) == ConnRaises(c) \/ name # CupsPrinter

(***************************************************************************)
(* implementation: printer name, DPI, CUPS flag                            *)
(***************************************************************************)
_get_printer_name(c, sel, printerName) ==
    IF printerName # None THEN printerName
    ELSE IF sel # None THEN sel
    ELSE IF ConnRaises(c) THEN None
    ELSE c.default

_get_printer_dpi(c, sel, printerName) ==
    LET name == _get_printer_name(c, sel, printerName) IN
    IF AttrsRaise(c, name) THEN DEFAULT_DPI
    ELSE IF Len(c.resolution) >= 2 THEN c.resolution[1]
    ELSE DEFAULT_DPI

_should_use_cups(cfg) == cfg.has_PRINTER /\ cfg.USE_CUPS

\* int(): truncation toward zero of the rational n / d (n >= 0, d > 0)
IntTrunc(n, d) == n \div d

RECURSIVE IndexOf(_, _, _)
\* list.index: the first position of x in s at or after i (0: not in s)
IndexOf(s, x, i) ==
    IF i > Len(s) THEN 0
    ELSE IF s[i] = x THEN i
    ELSE IndexOf(s, x, i + 1)

(***************************************************************************)
(* implementation._media_name_to_dimensions                                *)
(***************************************************************************)
\* lines 207-237: the media-size-supported record of the print server
CupsMediaDimensions(cfg, c, sel, media_name, printerName) ==
    LET name == _get_printer_name(c, sel, printerName)
        idx == IndexOf(c.media_supported, media_name, 1)
        dpi == _get_printer_dpi(c, sel, name)
    IN
    IF ~_should_use_cups(cfg) THEN NoDims
    ELSE IF AttrsRaise(c, name) THEN NoDims
    ELSE IF ~(idx > 0 /\ Len(c.media_sizes) > 0) THEN NoDims
    ELSE IF ~(idx - 1 < Len(c.media_sizes)) THEN NoDims
    ELSE LET size_info == c.media_sizes[idx] IN
         IF size_info.x # 0 /\ size_info.y # 0
         THEN Px(IntTrunc(size_info.x * dpi, 2540), IntTrunc(size_info.y * dpi, 2540))
         ELSE NoDims

\* lines 239-267: dimensions extracted from the media name
ParseMediaDimensions(c, sel, media_name, printerName) ==
    LET name == _get_printer_name(c, sel, printerName)
        match == MediaNamePattern(media_name)
        w == Tenths(match.w)
        h == Tenths(match.h)
        dpi == _get_printer_dpi(c, sel, name)
        unit == match.unit
    IN
    IF ~match.ok THEN NoDims
    ELSE IF unit = None \/ Lower(unit) = "pt"
         THEN Px(IntTrunc(w * dpi, 10 * POINTS_PER_INCH), IntTrunc(h * dpi, 10 * POINTS_PER_INCH))
    ELSE IF Lower(unit) = "in"
         THEN Px(IntTrunc(w * dpi, 10), IntTrunc(h * dpi, 10))
    ELSE IF Lower(unit) = "mm"
         THEN Px(IntTrunc(w * dpi, 254), IntTrunc(h * dpi, 254))
    ELSE IF Lower(unit) = "cm"
         THEN Px(IntTrunc(w * dpi * 10, 254), IntTrunc(h * dpi * 10, 254))
    ELSE NoDims

_media_name_to_dimensions(cfg, c, sel, media_name, printerName) ==
    LET fromCups == CupsMediaDimensions(cfg, c, sel, media_name, printerName) IN
    IF fromCups # NoDims THEN fromCups
    ELSE ParseMediaDimensions(c, sel, media_name, printerName)

(***************************************************************************)
(* implementation.get_label_dimensions                                     *)
(***************************************************************************)
\* A LABEL_PRINTABLE_AREA entry: the legacy array [w, h], the record
\* {dimensions: [w, h], offset: {...}}, or a bare number w
Legacy(w, h) == [shape |-> "legacy", w |-> w, h |-> h]
Record(w, h) == [shape |-> "record", w |-> w, h |-> h]
Scalar(w) == [shape |-> "scalar", w |-> w, h |-> 0]

\* tuple(printable_area)
TupleOf(entry) ==
    CASE entry.shape = "legacy" -> Px(entry.w, entry.h)
      [] entry.shape = "record" -> KeyNames
      [] OTHER -> Raised

get_from_config(cfg, label_size) ==
    IF cfg.has_PRINTER /\ cfg.has_AREA
    THEN IF label_size \in DOMAIN cfg.LABEL_PRINTABLE_AREA
         THEN TupleOf(cfg.LABEL_PRINTABLE_AREA[label_size])
         ELSE NoDims
    ELSE NoDims

\* get_label_dimensions with the configuration consulted before the print
\* server and the name
get_label_dimensions_configFirst(cfg, c, sel, label_size, printerName) ==
    LET name == _get_printer_name(c, sel, printerName)
        dims == _media_name_to_dimensions(cfg, c, sel, label_size, name)
        fromConfig == get_from_config(cfg, label_size)
    IN
    IF fromConfig.kind = "raise" THEN Raised
    ELSE IF fromConfig # NoDims THEN fromConfig
    ELSE IF dims # NoDims THEN dims
    ELSE Px(DEFAULT_WIDTH, DEFAULT_HEIGHT)

get_label_dimensions(cfg, c, sel, label_size, printerName) ==
    LET name == _get_printer_name(c, sel, printerName)
        dims == _media_name_to_dimensions(cfg, c, sel, label_size, name)
        fromConfig == get_from_config(cfg, label_size)
        \* the except branch: the configuration lookup once more
        handler == IF fromConfig.kind = "raise" THEN Raised
                   ELSE IF fromConfig # NoDims THEN fromConfig
                   ELSE Px(DEFAULT_WIDTH, DEFAULT_HEIGHT)
    IN
    IF dims # NoDims THEN dims
    ELSE IF fromConfig.kind = "raise" THEN handler
    ELSE IF fromConfig # NoDims THEN fromConfig
    ELSE Px(DEFAULT_WIDTH, DEFAULT_HEIGHT)

(***************************************************************************)
(* brother_ql_web.get_label_context: the size of the label                 *)
(***************************************************************************)
\* get_label_context without the swap to the wide form
get_label_context_rotateOnly(cfg, c, sel, label_size, printer, orientation) ==
    LET dims == get_label_dimensions(cfg, c, sel, label_size, printer) IN
    IF dims.kind = "raise" THEN Raised
    ELSE IF orientation = "rotated" THEN [dims EXCEPT !.w = dims.h, !.h = dims.w]
    ELSE dims

get_label_context(cfg, c, sel, label_size, printer, orientation) ==
    LET dims == get_label_dimensions(cfg, c, sel, label_size, printer)
        wide == IF dims.h > dims.w THEN [dims EXCEPT !.w = dims.h, !.h = dims.w] ELSE dims
    IN
    IF dims.kind = "raise" THEN Raised
    ELSE IF orientation = "rotated" THEN [wide EXCEPT !.w = wide.h, !.h = wide.w]
    ELSE wide

(***************************************************************************)
(* implementation._convert_to_cups_media_format                            *)
(***************************************************************************)
Returned(v) == [ok |-> TRUE, v |-> v]
Raises == [ok |-> FALSE, v |-> <<>>]

\* round(): the integer nearest to n / d, the even one at .5 (n >= 0, d > 0)
RoundHalfEven(n, d) ==
    LET q == n \div d
        r == n % d
    IN IF 2 * r < d THEN q
       ELSE IF 2 * r > d THEN q + 1
       ELSE IF q % 2 = 0 THEN q ELSE q + 1

\* f"Custom.{w}x{h}{unit}"
CustomName(w, h, unit) ==
    IF unit = None THEN <<Custom, w, T("x"), h>> ELSE <<Custom, w, T("x"), h, T(unit)>>

\* _convert_to_cups_media_format that prefers the points form of a parseable
\* unit-less name to its configured pixel size
_convert_to_cups_media_format_pointsFirst(cfg, c, sel, label_size_in, printerName, dpi_in) ==
    LET prefixed == Len(label_size_in) > 0 /\ label_size_in[1] = Custom
        size_part == Tail(label_size_in)
        label_size == IF prefixed THEN size_part ELSE label_size_in
        match == PARSEABLE_SIZE_PATTERN(label_size)
        dpi == IF dpi_in = 0 THEN _get_printer_dpi(c, sel, printerName) ELSE dpi_in
    IN
    IF prefixed /\ PARSEABLE_SIZE_PATTERN(size_part).ok THEN Returned(label_size_in)
    ELSE IF match.ok /\ match.unit # None
         THEN Returned(CustomName(match.w, match.h, Lower(match.unit)))
    ELSE IF match.ok THEN Returned(CustomName(match.w, match.h, None))
    ELSE IF ~cfg.has_PRINTER \/ ~cfg.has_AREA THEN Returned(label_size)
    ELSE IF label_size \notin DOMAIN cfg.LABEL_PRINTABLE_AREA THEN Returned(label_size)
    ELSE LET entry == cfg.LABEL_PRINTABLE_AREA[label_size] IN
         IF entry.shape # "legacy" THEN Raises
         ELSE Returned(<<Custom, N(RoundHalfEven(entry.w * 254, dpi * 10)), T("x"),
                         N(RoundHalfEven(entry.h * 254, dpi * 10)), T("mm")>>)

\* dpi_in = 0 stands for dpi=None
_convert_to_cups_media_format(cfg, c, sel, label_size_in, printerName, dpi_in) ==
    LET prefixed == Len(label_size_in) > 0 /\ label_size_in[1] = Custom
        size_part == Tail(label_size_in)
        label_size == IF prefixed THEN size_part ELSE label_size_in
        match == PARSEABLE_SIZE_PATTERN(label_size)
        pointsOrSame == IF match.ok /\ match.unit = None
                        THEN Returned(CustomName(match.w, match.h, None))
                        ELSE Returned(label_size)
        dpi == IF dpi_in = 0 THEN _get_printer_dpi(c, sel, printerName) ELSE dpi_in
    IN
    IF prefixed /\ PARSEABLE_SIZE_PATTERN(size_part).ok THEN Returned(label_size_in)
    ELSE IF match.ok /\ match.unit # None
         THEN Returned(CustomName(match.w, match.h, Lower(match.unit)))
    ELSE IF ~cfg.has_PRINTER \/ ~cfg.has_AREA THEN pointsOrSame
    ELSE IF label_size \notin DOMAIN cfg.LABEL_PRINTABLE_AREA THEN pointsOrSame
    ELSE LET entry == cfg.LABEL_PRINTABLE_AREA[label_size] IN
         \* width_px, height_px = entry: a record unpacks to its two key
         \* names, which cannot be divided; a number cannot be unpacked
         IF entry.shape # "legacy" THEN Raises
         ELSE Returned(<<Custom, N(RoundHalfEven(entry.w * 254, dpi * 10)), T("x"),
                         N(RoundHalfEven(entry.h * 254, dpi * 10)), T("mm")>>)

(***************************************************************************)
(* implementation.get_label_sizes                                          *)
(***************************************************************************)
\* _parse_media_name: the display name of a print-server medium
_parse_media_name(media_name) ==
    LET match == MediaNamePattern(media_name) IN
    IF match.ok
    THEN <<match.w, T(match.unit), T(" "), T("x"), T(" "), match.h, T(match.unit)>>
    ELSE media_name

RECURSIVE MergeCustom(_, _, _, _)
\* lines 326-328: append the custom sizes whose key is not a CUPS key
MergeCustom(merged_sizes, custom_sizes, cups_keys, i) ==
    IF i > Len(custom_sizes) THEN merged_sizes
    ELSE IF custom_sizes[i][1] \notin cups_keys
         THEN MergeCustom(Append(merged_sizes, custom_sizes[i]), custom_sizes, cups_keys, i + 1)
         ELSE MergeCustom(merged_sizes, custom_sizes, cups_keys, i + 1)

\* lines 287-308: the media the print server reports for the printer
CupsSizes(c, printer_name) ==
    LET Entry(media) == <<media, _parse_media_name(media)>> IN
    IF printer_name = None THEN <<>>
    ELSE IF AttrsRaise(c, printer_name) THEN <<>>
    ELSE [i \in 1..Len(c.media_supported) |-> Entry(c.media_supported[i])]

\* lines 310-319: the configured sizes under their converted keys
CustomSizes(cfg, c, sel, printer_name) ==
    LET config_sizes == IF cfg.has_PRINTER THEN cfg.LABEL_SIZES ELSE <<>>
        shape == IF cfg.has_PRINTER THEN cfg.sizes_shape ELSE "dict"
        dpi == _get_printer_dpi(c, sel, printer_name)
        Key(size) == _convert_to_cups_media_format(cfg, c, sel, size[1], printer_name, dpi)
        Entry(size) == <<Key(size).v, size[2]>>
    IN
    IF shape \notin {"dict", "list"} THEN Returned(<<>>)
    ELSE IF \E i \in 1..Len(config_sizes) : ~Key(config_sizes[i]).ok THEN Raises
    ELSE Returned([i \in 1..Len(config_sizes) |-> Entry(config_sizes[i])])

\* get_label_sizes that appends every configured size
get_label_sizes_noCheck(cfg, c, sel, printer_name_in) ==
    LET printer_name == _get_printer_name(c, sel, printer_name_in)
        cups_sizes == CupsSizes(c, printer_name)
        custom_sizes == CustomSizes(cfg, c, sel, printer_name)
    IN
    IF ~_should_use_cups(cfg)
    THEN Returned(IF cfg.has_PRINTER /\ cfg.sizes_shape \in {"dict", "list"}
                  THEN cfg.LABEL_SIZES ELSE <<>>)
    ELSE IF ~custom_sizes.ok THEN Raises
    ELSE Returned(cups_sizes \o custom_sizes.v)

get_label_sizes(cfg, c, sel, printer_name_in) ==
    LET printer_name == _get_printer_name(c, sel, printer_name_in)
        cups_sizes == CupsSizes(c, printer_name)
        custom_sizes == CustomSizes(cfg, c, sel, printer_name)
        cups_keys == {cups_sizes[i][1] : i \in 1..Len(cups_sizes)}
        merged_sizes == MergeCustom(cups_sizes, custom_sizes.v, cups_keys, 1)
    IN
    IF ~_should_use_cups(cfg)
    THEN Returned(IF cfg.has_PRINTER /\ cfg.sizes_shape \in {"dict", "list"}
                  THEN cfg.LABEL_SIZES ELSE <<>>)
    ELSE IF ~custom_sizes.ok THEN Raises
    ELSE IF merged_sizes # <<>> THEN Returned(merged_sizes)
    ELSE Returned(custom_sizes.v)

(***************************************************************************)
(* configuration_management.filter_label_sizes_for_printer                 *)
(***************************************************************************)
RECURSIVE FilterByKey(_, _, _)
\* [t for t in label_sizes_list if t[0] in enabled_set]
FilterByKey(label_sizes_list, enabled_set, i) ==
    IF i > Len(label_sizes_list) THEN <<>>
    ELSE (IF label_sizes_list[i][1] \in enabled_set THEN <<label_sizes_list[i]>> ELSE <<>>)
            \o FilterByKey(label_sizes_list, enabled_set, i + 1)

\* filter_label_sizes_for_printer that filters by an empty allow-list too
filter_label_sizes_strict(label_sizes_list, printer_name, config) ==
    LET enabled_map == IF config.has_PRINTER THEN config.ENABLED_SIZES ELSE <<>>
        enabled_for_printer == IF printer_name \in DOMAIN enabled_map
                               THEN enabled_map[printer_name] ELSE <<>>
        enabled_set == {enabled_for_printer[i] : i \in 1..Len(enabled_for_printer)}
    IN
    IF printer_name \notin DOMAIN enabled_map THEN label_sizes_list
    ELSE FilterByKey(label_sizes_list, enabled_set, 1)

filter_label_sizes_for_printer(label_sizes_list, printer_name, config) ==
    LET enabled_map == IF config.has_PRINTER THEN config.ENABLED_SIZES ELSE <<>>
        enabled_for_printer == IF printer_name \in DOMAIN enabled_map
                               THEN enabled_map[printer_name] ELSE <<>>
        enabled_set == {enabled_for_printer[i] : i \in 1..Len(enabled_for_printer)}
    IN
    IF enabled_for_printer = <<>> THEN label_sizes_list
    ELSE FilterByKey(label_sizes_list, enabled_set, 1)

(***************************************************************************)
(* implementation.initialize: the printer selected for an instance         *)
(***************************************************************************)
initialize_selected(cfg, c) ==
    LET cups_default == IF ConnRaises(c) THEN None ELSE c.default
        configured_printer == IF cfg.has_PRINTER THEN cfg.PRINTER ELSE ""
    IN IF configured_printer \notin {"", None} THEN configured_printer ELSE cups_default

(***************************************************************************)
(* States the program starts from                                          *)
(***************************************************************************)
RECURSIVE SeqsUpTo(_, _)
\* the sequences over S of length at most n
SeqsUpTo(S, n) ==
    IF n = 0 THEN {<<>>}
    ELSE LET shorter == SeqsUpTo(S, n - 1) IN
         shorter \cup {Append(q, x) : q \in shorter, x \in S}

\* the media the print server may list, each with its media-size record
CupsMedia == {Id_w62h29, Id_oe62}

SizeOfMedia(m) == MediaSize(6200, 2900)

Resolutions == {<<>>, <<300, 300, 3>>}

\* servers: media-size-supported holds the records of the first n media
CupsStates ==
    UNION { { [up |-> u, default |-> d, media_supported |-> ms,
               media_sizes |-> [i \in 1..n |-> SizeOfMedia(ms[i])], resolution |-> r] :
                u \in BOOLEAN, d \in {CupsPrinter}, r \in Resolutions,
                n \in 0..Len(ms) } :
            ms \in SeqsUpTo(CupsMedia, MaxMedia) }

NoArea == [x \in {} |-> Legacy(0, 0)]

\* LABEL_PRINTABLE_AREA: an entry for 'oe_dk-62', next to one for '4x6in'
AreaEntries == {Legacy(100, 200), Legacy(200, 100), Legacy(0, 0), Record(696, 271),
                Scalar(696)}

Areas ==
    {NoArea} \cup {[x \in {Id_oe62, Id_4x6in} |->
                      IF x = Id_oe62 THEN e ELSE Legacy(696, 271)] : e \in AreaEntries}

NoEnabled == [x \in {} |-> <<>>]

\* LABEL.DEFAULT_FONTS: a list of font dicts, or a single dict
FontList(fonts) == [shape |-> "list", fonts |-> fonts]
FontDict(font) == [shape |-> "dict", fonts |-> <<font>>]

Font(family, style) == [family |-> family, style |-> style]

\* has_PRINTER: the PRINTER section exists; PRINTER or SERVER None: the key
\* is missing; DEFAULT_SIZE <<>>: the key is missing or ''
BaseConfig ==
    [has_PRINTER |-> TRUE, USE_CUPS |-> TRUE, SERVER |-> "localhost", PRINTER |-> "",
     sizes_shape |-> "dict", LABEL_SIZES |-> <<>>,
     has_AREA |-> TRUE, LABEL_PRINTABLE_AREA |-> NoArea,
     ENABLED_SIZES |-> NoEnabled,
     PRINTERS_INCLUDE |-> <<>>, PRINTERS_EXCLUDE |-> <<>>,
     DEFAULT_SIZE |-> <<>>, DEFAULT_FONTS |-> FontDict(Font("DejaVu Sans", "Book"))]

\* bool(s) of a string or None
Truthy(s) == s \notin {"", None}

\* x in list
InList(x, list) == \E i \in 1..Len(list) : list[i] = x

\* one error message: what it reports and the names it quotes
Err(kind, name, family, style, size) ==
    [kind |-> kind, name |-> name, family |-> family, style |-> style, size |-> size]

NoPrinterConfiguration == Err("No printer configuration found", "", "", "", <<>>)
FailedToRetrieve(server_ip) ==
    Err("Failed to retrieve printer data from CUPS server",
        IF Truthy(server_ip) THEN server_ip ELSE "localhost", "", "", <<>>)

\* the one print server of the deployment answers at 'localhost', which is
\* also where libcups connects when no server was named; nothing answers
\* at another address
ServerAt(c, server_ip) ==
    IF server_ip \in {None, "localhost"} THEN c ELSE [c EXCEPT !.up = FALSE]

\* a PRINTER section that is an empty dict
EmptySection(config) ==
    [config EXCEPT !.has_PRINTER = TRUE, !.USE_CUPS = FALSE, !.SERVER = None,
                   !.PRINTER = None, !.sizes_shape = "dict", !.LABEL_SIZES = <<>>,
                   !.has_AREA = FALSE, !.LABEL_PRINTABLE_AREA = NoArea,
                   !.ENABLED_SIZES = NoEnabled,
                   !.PRINTERS_INCLUDE = <<>>, !.PRINTERS_EXCLUDE = <<>>]

\* initialize, lines 48-57: the CONFIG the instance holds afterwards
initialize_config(config) ==
    IF config.has_PRINTER THEN config ELSE EmptySection(config)

\* lines 51-62: the server handed to cups.setServer
initialize_server(config) ==
    IF config.has_PRINTER THEN config.SERVER ELSE None

\* initialize that keeps the errors of the call before
initialize_errors_kept(config, c, before) ==
    before
    \o (IF config.has_PRINTER THEN <<>> ELSE <<NoPrinterConfiguration>>)
    \o (IF ConnRaises(ServerAt(c, initialize_server(config)))
        THEN <<FailedToRetrieve(initialize_server(config))>> ELSE <<>>)

\* lines 49-75: initialization_errors after the call; before: the errors
\* the instance held
initialize_errors(config, c, before) ==
    (IF config.has_PRINTER THEN <<>> ELSE <<NoPrinterConfiguration>>)
    \o (IF ConnRaises(ServerAt(c, initialize_server(config)))
        THEN <<FailedToRetrieve(initialize_server(config))>> ELSE <<>>)

\* lines 77-79: the printer selected by initialize(config)
initialize_printer(config, c) ==
    initialize_selected(initialize_config(config),
                        ServerAt(c, initialize_server(config)))

\* the module globals as brother_ql_web defines them (lines 73, 95-97) and
\* the instance after initialize(CONFIG)
StartUp ==
    /\ initialization_errors = initialize_errors(CONFIG, cups, <<>>)
    /\ server = initialize_server(CONFIG)
    /\ PRINTERS = None
    /\ LABEL_SIZES = None
    /\ FONTS = <<>>
    /\ CONFIG_ERRORS = <<>>

DimsConfigs ==
    { [BaseConfig EXCEPT !.USE_CUPS = u, !.PRINTER = p,
                         !.has_AREA = (a # NoArea \/ h), !.LABEL_PRINTABLE_AREA = a] :
        u \in BOOLEAN, p \in {"", CupsPrinter}, a \in Areas, h \in BOOLEAN }

Idle == [kind |-> "idle", w |-> 0, h |-> 0]

isIdle == op = "idle"

InitDims ==
    /\ CONFIG \in DimsConfigs
    /\ cups \in CupsStates
    /\ selected_printer = initialize_selected(CONFIG, cups)
    /\ op = "idle"
    /\ args = <<>>
    /\ result = Idle
    /\ backlog = <<>>
    /\ StartUp

Orientations == {"standard", "rotated"}

GetLabelDimensions(label_size, printerName) ==
    /\ isIdle
    /\ op' = "get_label_dimensions"
    /\ args' = [label_size |-> label_size, printerName |-> printerName]
    /\ result' = get_label_dimensions(CONFIG, cups, selected_printer, label_size, printerName)
    /\ UNCHANGED <<CONFIG, cups, selected_printer, backlog, globals>>

GetLabelContext(label_size, printer, orientation) ==
    /\ isIdle
    /\ op' = "get_label_context"
    /\ args' = [label_size |-> label_size, printerName |-> printer,
                orientation |-> orientation]
    /\ result' = get_label_context(CONFIG, cups, selected_printer, label_size, printer,
                                   orientation)
    /\ UNCHANGED <<CONFIG, cups, selected_printer, backlog, globals>>

\* the request is answered; the server waits for the next one
Respond ==
    /\ ~isIdle
    /\ op' = "idle"
    /\ args' = <<>>
    /\ result' = Idle
    /\ UNCHANGED <<CONFIG, cups, selected_printer, backlog, globals>>

NextDims ==
    \/ \E label_size \in SizeIds, printerName \in {None, CupsPrinter} :
          GetLabelDimensions(label_size, printerName)
    \/ \E label_size \in SizeIds, printer \in {None, CupsPrinter}, o \in Orientations :
          GetLabelContext(label_size, printer, o)
    \/ Respond

SpecDims == InitDims /\ [][NextDims]_vars

(***************************************************************************)
(* Properties of get_label_dimensions and get_label_context                *)
(***************************************************************************)
Abs(n) == IF n < 0 THEN -n ELSE n
Max(a, b) == IF a >= b THEN a ELSE b
Min(a, b) == IF a <= b THEN a ELSE b

\* r is the rational n / d rounded to a nearest integer (either one at .5)
IsNearest(n, d, r) == 2 * Abs(n - r * d) <= d

\* r is n / d rounded to a nearest integer or truncated
IsPixelsOf(n, d, r) == IsNearest(n, d, r) \/ r = IntTrunc(n, d)

isDimsCall == op = "get_label_dimensions"

\* the sources of the call that is being answered
callName == _get_printer_name(cups, selected_printer, args.printerName)
callDpi == _get_printer_dpi(cups, selected_printer, callName)
callCups == CupsMediaDimensions(CONFIG, cups, selected_printer, args.label_size, callName)
callParse == ParseMediaDimensions(cups, selected_printer, args.label_size, callName)
callConfig == get_from_config(CONFIG, args.label_size)
callHasEntry ==
    /\ CONFIG.has_PRINTER
    /\ CONFIG.has_AREA
    /\ args.label_size \in DOMAIN CONFIG.LABEL_PRINTABLE_AREA
callEntry == CONFIG.LABEL_PRINTABLE_AREA[args.label_size]

\* C1: get_label_dimensions returns a pair whose two components are both
\* > 0, and exactly (300, 200) when the identifier is not in the print
\* server's media list, has no dimensions in its name and no configured entry.
C1_PositiveDimensions ==
    isDimsCall =>
        /\ result.kind = "px" => result.w > 0 /\ result.h > 0
        /\ (callCups = NoDims /\ callParse = NoDims /\ ~callHasEntry)
              => result = Px(DEFAULT_WIDTH, DEFAULT_HEIGHT)

\* C2: get_label_dimensions never raises: a failing configuration lookup is
\* treated as 'no result' and the call returns a (width, height) pair.
C2_NeverRaises == isDimsCall => result.kind # "raise"

\* C3: get_label_dimensions takes its result from the first source that
\* produces one, in the order print-server record, dimensions parsed from
\* the name, configured LABEL_PRINTABLE_AREA entry, (300, 200).
C3_CascadeOrder ==
    isDimsCall =>
        /\ callCups # NoDims => result = callCups
        /\ (callCups = NoDims /\ callParse # NoDims) => result = callParse
        /\ (callCups = NoDims /\ callParse = NoDims /\ callConfig.kind \in {"px", "keys"})
              => result = callConfig
        /\ (callCups = NoDims /\ callParse = NoDims /\ callConfig = NoDims)
              => result = Px(DEFAULT_WIDTH, DEFAULT_HEIGHT)

\* a print-server record wins over a different configured size
C3_Witness ==
    /\ isDimsCall
    /\ callCups # NoDims
    /\ callConfig.kind = "px"
    /\ callConfig # callCups
    /\ result = callCups

\* The physical size an identifier of the form [Custom.]WxH[unit] names:
\* unit in, mm, cm, pt, or none (points)
Body(id) == IF Len(id) > 0 /\ id[1] = Custom THEN Tail(id) ELSE id

NamesPhysicalSize(id) ==
    LET b == Body(id) IN
    /\ Len(b) \in {3, 4}
    /\ IsNum(b[1]) /\ b[2].k = "x" /\ IsNum(b[3])
    /\ Len(b) = 4 => b[4].k \in {"in", "mm", "cm", "pt"}

UnitOf(id) == IF Len(Body(id)) = 4 THEN Body(id)[4].k ELSE "pt"

\* tenths of a unit per inch, as numerator and denominator
PerInch(unit) ==
    CASE unit = "in" -> <<10, 1>>
      [] unit = "mm" -> <<254, 1>>
      [] unit = "cm" -> <<254, 10>>
      [] OTHER -> <<10 * POINTS_PER_INCH, 1>>

\* r is the pixel length of t units at the call's DPI
IsPixelLength(t, unit, r) ==
    IsPixelsOf(Tenths(t) * callDpi * PerInch(unit)[2], PerInch(unit)[1], r)

\* C4: without a print-server record, an identifier WxH with unit in, mm,
\* cm, pt or no unit (points), also as Custom.WxHunit, resolves to the pixel
\* conversion of that physical size at the printer DPI.
C4_NameParsing ==
    (isDimsCall /\ callCups = NoDims /\ NamesPhysicalSize(args.label_size)) =>
        /\ result.kind = "px"
        /\ IsPixelLength(Body(args.label_size)[1], UnitOf(args.label_size), result.w)
        /\ IsPixelLength(Body(args.label_size)[3], UnitOf(args.label_size), result.h)

\* C5: the configuration lookup returns the configured (width, height) for
\* the legacy array and for the record {dimensions: [width, height], offset}.
C5_ConfigShapes ==
    (/\ isDimsCall
     /\ callCups = NoDims
     /\ callParse = NoDims
     /\ callHasEntry
     /\ callEntry.shape \in {"legacy", "record"})
        => result = Px(callEntry.w, callEntry.h)

isContextCall == op = "get_label_context"

callDims ==
    get_label_dimensions(CONFIG, cups, selected_printer, args.label_size, args.printerName)

\* C6: get_label_context gives (max(w,h), min(w,h)) for 'standard' and
\* (min(w,h), max(w,h)) for 'rotated', for every resolved size (w, h).
C6_OrientationSwap ==
    (isContextCall /\ callDims.kind # "raise") =>
        /\ result.kind = callDims.kind
        /\ args.orientation = "standard" =>
              /\ result.w = Max(callDims.w, callDims.h)
              /\ result.h = Min(callDims.w, callDims.h)
        /\ args.orientation = "rotated" =>
              /\ result.w = Min(callDims.w, callDims.h)
              /\ result.h = Max(callDims.w, callDims.h)

\* (100, 200) in standard orientation becomes (200, 100)
C6_Witness ==
    /\ isContextCall
    /\ args.orientation = "standard"
    /\ callDims = Px(100, 200)
    /\ result = Px(200, 100)

\* C7: every pixel dimension produced from a physical size (print-server
\* record or W/H parsed from the name) is inches times DPI rounded to the
\* nearest integer, not truncated.
C7_RoundToNearest ==
    isDimsCall =>
        /\ callCups # NoDims =>
              LET size_info == cups.media_sizes[IndexOf(cups.media_supported,
                                                        args.label_size, 1)] IN
              /\ IsNearest(size_info.x * callDpi, 2540, result.w)
              /\ IsNearest(size_info.y * callDpi, 2540, result.h)
        /\ (callCups = NoDims /\ callParse # NoDims) =>
              LET match == MediaNamePattern(args.label_size)
                  per == PerInch(match.unit)
              IN
              /\ IsNearest(Tenths(match.w) * callDpi * per[2], per[1], result.w)
              /\ IsNearest(Tenths(match.h) * callDpi * per[2], per[1], result.h)

(***************************************************************************)
(* The catalog: get_label_sizes and filter_label_sizes_for_printer         *)
(***************************************************************************)
\* the display label configured for a size key
LabelOf(key) == <<T("label of ")>> \o key

\* configured keys: '4x6in' and '4 x 6 in' convert to the same identifier,
\* 'Custom.4x6in', which the print server may list itself
ConfigKeys == {Id_4x6in, Id_4sx6sin, Id_62, Id_288x144}

CatalogMedia == {Id_Custom4x6in, Id_oe62}

IsInjective(q) == \A i, j \in 1..Len(q) : q[i] = q[j] => i = j

\* LABEL_SIZES: a dict (no key twice), a list of pairs, or neither (null)
LabelSizes ==
    { [shape |-> sh, sizes |-> [i \in 1..Len(q) |-> <<q[i], LabelOf(q[i])>>]] :
        sh \in {"dict", "list"}, q \in SeqsUpTo(ConfigKeys, MaxSizes) }
      \cup {[shape |-> "other", sizes |-> <<>>]}

ValidLabelSizes(ls) ==
    ls.shape = "dict" => IsInjective([i \in 1..Len(ls.sizes) |-> ls.sizes[i][1]])

CatalogAreas ==
    {NoArea} \cup {[x \in {Id_62} |-> e] : e \in {Legacy(696, 271), Record(696, 271)}}

AllowKeys == {Id_Custom4x6in, <<Custom, N(288), T("x"), N(144)>>}

\* ENABLED_SIZES: no entry for the printer, or an allow-list
EnabledMaps ==
    {NoEnabled} \cup {[x \in {CupsPrinter} |-> q] : q \in SeqsUpTo(AllowKeys, MaxEnabled)}

CatalogConfigs ==
    { [BaseConfig EXCEPT !.USE_CUPS = u, !.PRINTER = CupsPrinter,
                         !.sizes_shape = ls.shape, !.LABEL_SIZES = ls.sizes,
                         !.LABEL_PRINTABLE_AREA = a, !.ENABLED_SIZES = e] :
        u \in BOOLEAN, ls \in {x \in LabelSizes : ValidLabelSizes(x)},
        a \in CatalogAreas, e \in EnabledMaps }

CatalogCups ==
    { [up |-> u, default |-> CupsPrinter, media_supported |-> ms,
       media_sizes |-> <<>>, resolution |-> <<>>] :
        u \in BOOLEAN, ms \in SeqsUpTo(CatalogMedia, MaxMedia) }

InitCatalog ==
    /\ CONFIG \in CatalogConfigs
    /\ cups \in CatalogCups
    /\ selected_printer = initialize_selected(CONFIG, cups)
    /\ op = "idle"
    /\ args = <<>>
    /\ result = Idle
    /\ backlog = <<>>
    /\ StartUp

GetLabelSizes(printer_name) ==
    /\ isIdle
    /\ op' = "get_label_sizes"
    /\ args' = [printer_name |-> printer_name]
    /\ result' = get_label_sizes(CONFIG, cups, selected_printer, printer_name)
    /\ UNCHANGED <<CONFIG, cups, selected_printer, backlog, globals>>

\* the configuration without a PRINTER section
WithoutPrinterSection(cfg) == [cfg EXCEPT !.has_PRINTER = FALSE]

\* the catalog of a printer is fetched and filtered for that printer
\* (brother_ql_web.get_printer_label_sizes, compute_printer_selection)
FilterLabelSizes(printer_name, config) ==
    LET label_sizes_list == get_label_sizes(CONFIG, cups, selected_printer, printer_name) IN
    /\ isIdle
    /\ op' = "filter_label_sizes_for_printer"
    /\ args' = [printer_name |-> printer_name, config |-> config,
                label_sizes_list |-> label_sizes_list]
    /\ result' = IF label_sizes_list.ok
                 THEN Returned(filter_label_sizes_for_printer(label_sizes_list.v,
                                                              printer_name, config))
                 ELSE Raises
    /\ UNCHANGED <<CONFIG, cups, selected_printer, backlog, globals>>

PrinterNames == {None, CupsPrinter, "p2"}

NextCatalog ==
    \/ \E printer_name \in PrinterNames : GetLabelSizes(printer_name)
    \/ \E printer_name \in PrinterNames,
          config \in {CONFIG, WithoutPrinterSection(CONFIG)} :
          FilterLabelSizes(printer_name, config)
    \/ Respond

SpecCatalog == InitCatalog /\ [][NextCatalog]_vars

isSizesCall == op = "get_label_sizes"

Keys(list) == [i \in 1..Len(list) |-> list[i][1]]

sizesName == _get_printer_name(cups, selected_printer, args.printer_name)
sizesCups == CupsSizes(cups, sizesName)
sizesDpi == _get_printer_dpi(cups, selected_printer, sizesName)

\* the canonical form of a configured key
Canonical(key) ==
    _convert_to_cups_media_format(CONFIG, cups, selected_printer, key, sizesName, sizesDpi)

\* C8: with CUPS enabled the catalog contains no identifier twice, and when
\* a configured key's canonical identifier equals a print-server identifier
\* the single entry under it carries the print-server label.
C8_UniqueKeys ==
    (isSizesCall /\ _should_use_cups(CONFIG) /\ result.ok) =>
        /\ IsInjective(Keys(result.v))
        /\ \A i \in 1..Len(CONFIG.LABEL_SIZES), j \in 1..Len(sizesCups),
              n \in 1..Len(result.v) :
              (/\ Canonical(CONFIG.LABEL_SIZES[i][1]).v = sizesCups[j][1]
               /\ result.v[n][1] = sizesCups[j][1])
                 => result.v[n][2] = sizesCups[j][2]

\* the configured sizes whose canonical key the print server does not list
sizesKept ==
    SelectSeq([i \in 1..Len(CONFIG.LABEL_SIZES) |->
                  <<Canonical(CONFIG.LABEL_SIZES[i][1]).v, CONFIG.LABEL_SIZES[i][2]>>],
              LAMBDA e : \A j \in 1..Len(sizesCups) : sizesCups[j][1] # e[1])

\* C9: with CUPS enabled get_label_sizes returns every print-server medium
\* under its native name, followed by the configured sizes under their
\* canonical keys, each included iff that key is not a print-server key.
C9_Merge ==
    (isSizesCall /\ _should_use_cups(CONFIG) /\ result.ok) =>
        /\ Len(result.v) = Len(sizesCups) + Len(sizesKept)
        /\ \A i \in 1..Len(sizesCups) : result.v[i] = sizesCups[i]
        /\ \A i \in 1..Len(sizesKept) : result.v[Len(sizesCups) + i] = sizesKept[i]
        /\ sizesCups # <<>> =>
              sizesCups = [i \in 1..Len(cups.media_supported) |->
                              <<cups.media_supported[i],
                                _parse_media_name(cups.media_supported[i])>>]

\* sink {Custom.4x6in}, configured {'4x6in', '288x144'}: one entry under
\* Custom.4x6in, one under Custom.288x144
C9_Witness ==
    /\ isSizesCall
    /\ _should_use_cups(CONFIG)
    /\ result.ok
    /\ cups.media_supported = <<Id_Custom4x6in>>
    /\ Keys(CONFIG.LABEL_SIZES) = <<Id_4x6in, Id_288x144>>
    /\ Keys(result.v) = <<Id_Custom4x6in, <<Custom, N(288), T("x"), N(144)>>>>
    /\ result.v[1][2] = _parse_media_name(Id_Custom4x6in)

isFilterCall == op = "filter_label_sizes_for_printer"

\* the allow-list of the printer of the call: empty when there is none
filterAllowed ==
    IF args.config.has_PRINTER /\ args.printer_name \in DOMAIN args.config.ENABLED_SIZES
    THEN args.config.ENABLED_SIZES[args.printer_name]
    ELSE <<>>

\* C10: filter_label_sizes_for_printer returns the catalog unchanged when
\* the printer has no or an empty ENABLED_SIZES entry or there is no PRINTER
\* section, and otherwise exactly the entries whose key is in the
\* allow-list, in their original order.
C10_Filter ==
    (isFilterCall /\ result.ok) =>
        IF filterAllowed = <<>>
        THEN result.v = args.label_sizes_list.v
        ELSE result.v = SelectSeq(args.label_sizes_list.v,
                                  LAMBDA t : \E i \in 1..Len(filterAllowed) :
                                                 filterAllowed[i] = t[1])

\* an allow-list that keeps some entries of the catalog and drops others
C10_Witness ==
    /\ isFilterCall
    /\ result.ok
    /\ filterAllowed # <<>>
    /\ Len(result.v) > 1
    /\ Len(result.v) < Len(args.label_sizes_list.v)

(***************************************************************************)
(* Requests that convert a size identifier to a CUPS media name:           *)
(* get_label_sizes passes the DPI it looked up, print_label passes none    *)
(***************************************************************************)
ConvertIds ==
    { Id_4x6in, Id_Custom4x6in, Id_4sx6sin, Id_62, Id_Custom62, Id_CustomCustom62,
      Id_oe62, Id_288x144, Id_288x144pt, Id_4X6IN, Id_45x65in, Id_na4x6,
      Id_Custom8x4cm }

\* LABEL_PRINTABLE_AREA over any of the keys '62', '288x144', '288x144pt'
ConvertKeys == {Id_62, Id_288x144, Id_288x144pt}

ConvertEntries == {Legacy(696, 271), Legacy(100, 200), Record(696, 271)}

ConvertAreas == UNION {[K -> ConvertEntries] : K \in SUBSET ConvertKeys}

ConvertConfigs ==
    { [BaseConfig EXCEPT !.PRINTER = CupsPrinter, !.LABEL_PRINTABLE_AREA = a] :
        a \in ConvertAreas }
    \cup { [BaseConfig EXCEPT !.has_PRINTER = hp, !.has_AREA = FALSE] : hp \in BOOLEAN }

ConvertCups ==
    { [up |-> u, default |-> CupsPrinter, media_supported |-> <<>>,
       media_sizes |-> <<>>, resolution |-> r] :
        u \in BOOLEAN, r \in Resolutions }

\* the dpi argument: 0 for a call without one
ConvertDpis == {0, DEFAULT_DPI, 300}

InitConvert ==
    /\ CONFIG \in ConvertConfigs
    /\ cups \in ConvertCups
    /\ selected_printer = initialize_selected(CONFIG, cups)
    /\ op = "idle"
    /\ args = <<>>
    /\ result = Idle
    /\ backlog = <<>>
    /\ StartUp

ConvertToCupsMediaFormat(label_size, printerName, dpi) ==
    /\ isIdle
    /\ op' = "_convert_to_cups_media_format"
    /\ args' = [label_size |-> label_size, printerName |-> printerName, dpi |-> dpi]
    /\ result' = _convert_to_cups_media_format(CONFIG, cups, selected_printer, label_size,
                                               printerName, dpi)
    /\ UNCHANGED <<CONFIG, cups, selected_printer, backlog, globals>>

\* the name a conversion returned is converted once more
ConvertAgain ==
    /\ op = "_convert_to_cups_media_format"
    /\ result.ok
    /\ op' = "convert_again"
    /\ args' = [args EXCEPT !.label_size = result.v]
    /\ result' = _convert_to_cups_media_format(CONFIG, cups, selected_printer, result.v,
                                               args.printerName, args.dpi)
    /\ UNCHANGED <<CONFIG, cups, selected_printer, backlog, globals>>

NextConvert ==
    \/ \E label_size \in ConvertIds, printerName \in {None, CupsPrinter},
          dpi \in ConvertDpis :
          ConvertToCupsMediaFormat(label_size, printerName, dpi)
    \/ ConvertAgain
    \/ Respond

SpecConvert == InitConvert /\ [][NextConvert]_vars

(***************************************************************************)
(* Properties of _convert_to_cups_media_format                             *)
(***************************************************************************)
isConvertCall == op = "_convert_to_cups_media_format"

\* C11: converting the result of a conversion returns that result again.
C11_Idempotent ==
    op = "convert_again" => result = Returned(args.label_size)

\* the identifier without its whitespace
NoSpaces(id) == SelectSeq(id, LAMBDA t : ~IsSpace(t))

Units == {"in", "mm", "cm", "pt"}

IsCanonical(id) ==
    Len(id) > 0 /\ id[1] = Custom /\ PARSEABLE_SIZE_PATTERN(Tail(id)).ok

IsConfigured(id) ==
    /\ CONFIG.has_PRINTER /\ CONFIG.has_AREA
    /\ (id \in DOMAIN CONFIG.LABEL_PRINTABLE_AREA
        \/ Body(id) \in DOMAIN CONFIG.LABEL_PRINTABLE_AREA)

\* C12: an identifier that is not canonical, does not parse as W x H and has
\* no configured pixel size is returned exactly as passed in, with any
\* 'Custom.' prefix it carried.
C12_Passthrough ==
    (/\ isConvertCall
     /\ ~IsCanonical(args.label_size)
     /\ ~PARSEABLE_SIZE_PATTERN(args.label_size).ok
     /\ ~IsConfigured(args.label_size)) =>
        result = Returned(args.label_size)

\* the identifier reads W x H u with a unit u of in, mm, cm, pt in any case
HasUnitForm(id) ==
    LET b == NoSpaces(id) IN
    /\ Len(b) = 4
    /\ IsNum(b[1]) /\ b[2].k \in {"x", "X"} /\ IsNum(b[3])
    /\ Lower(b[4].k) \in Units

\* C13: W x H u with u in in, mm, cm, pt converts to 'Custom.' W 'x' H
\* lowercase(u), whatever the configuration holds.
C13_ExplicitUnit ==
    (isConvertCall /\ HasUnitForm(args.label_size)) =>
        LET b == NoSpaces(args.label_size) IN
        result = Returned(<<Custom, b[1], T("x"), b[3], T(Lower(b[4].k))>>)

\* the identifier reads W x H, with or without a unit
HasSizeForm(id) ==
    LET b == NoSpaces(id) IN
    \/ HasUnitForm(id)
    \/ Len(b) = 3 /\ IsNum(b[1]) /\ b[2].k \in {"x", "X"} /\ IsNum(b[3])

\* C14: parsing the converted name of a triple (w, h, unit) with the
\* size-key pattern recovers w, h and the unit.
C14_RoundTrip ==
    (isConvertCall /\ HasSizeForm(args.label_size) /\ result.ok) =>
        LET b == NoSpaces(args.label_size)
            parsed == PARSEABLE_SIZE_PATTERN(result.v)
        IN /\ parsed.ok
           /\ parsed.w = b[1]
           /\ parsed.h = b[3]
           /\ parsed.unit = (IF Len(b) = 4 THEN Lower(b[4].k) ELSE None)

\* C15: the converted name does not depend on the print server: the same
\* call against any other server state returns the same name.
C15_ServerIndependent ==
    isConvertCall =>
        \A other \in ConvertCups :
            _convert_to_cups_media_format(CONFIG, other, selected_printer,
                                          args.label_size, args.printerName, args.dpi)
                = result

\* the identifier ends in a unit
HasUnitSuffix(id) == Len(id) > 0 /\ Lower(id[Len(id)].k) \in Units

\* the DPI of the conversion that is being answered
convertDpi ==
    IF args.dpi = 0 THEN _get_printer_dpi(cups, selected_printer, args.printerName)
    ELSE args.dpi

\* the pair [width_px, height_px] configured for the identifier, if any
hasPixelSize ==
    /\ CONFIG.has_PRINTER /\ CONFIG.has_AREA
    /\ args.label_size \in DOMAIN CONFIG.LABEL_PRINTABLE_AREA
    /\ CONFIG.LABEL_PRINTABLE_AREA[args.label_size].shape = "legacy"

isUnitless ==
    /\ isConvertCall
    /\ Len(args.label_size) > 0 /\ args.label_size[1] # Custom
    /\ ~HasUnitSuffix(args.label_size)

\* C16: a unit-less identifier W x H without a configured pixel size becomes
\* 'Custom.WxH'; a unit-less identifier with a configured pixel size
\* becomes 'Custom.' round(width_px/dpi*25.4) 'x' round(height_px/dpi*25.4) 'mm'.
C16_UnitlessByConfig ==
    isUnitless =>
        LET b == NoSpaces(args.label_size) IN
        /\ (HasSizeForm(args.label_size) /\ ~IsConfigured(args.label_size)) =>
              result = Returned(<<Custom, b[1], T("x"), b[3]>>)
        /\ hasPixelSize =>
              LET entry == CONFIG.LABEL_PRINTABLE_AREA[args.label_size] IN
              /\ result.ok
              /\ Len(result.v) = 5
              /\ result.v[1] = Custom /\ result.v[3] = T("x") /\ result.v[5] = T("mm")
              /\ IsNum(result.v[2]) /\ result.v[2].f = -1
              /\ IsNum(result.v[4]) /\ result.v[4].f = -1
              /\ IsNearest(entry.w * 254, convertDpi * 10, result.v[2].i)
              /\ IsNearest(entry.h * 254, convertDpi * 10, result.v[4].i)

\* a parseable unit-less identifier with a configured pixel size, converted
\* at the resolution the print server reports
C16_Witness ==
    /\ isUnitless /\ hasPixelSize
    /\ args.label_size = Id_288x144
    /\ args.dpi = 0 /\ convertDpi = 300
    /\ result.ok

(***************************************************************************)
(* implementation.print_label                                              *)
(***************************************************************************)
MaxJobs == 1       \* jobs the print server holds

\* what the body of the try block does: it raises, or it hands a job over
NoJob == [printer |-> None, media |-> <<>>, copies |-> 0]
BodyRaises(message) == [raises |-> TRUE, message |-> message, job |-> NoJob]
Submits(printer_name, media, quantity) ==
    [raises |-> FALSE, message |-> "",
     job |-> [printer |-> printer_name, media |-> media, copies |-> quantity]]

\* lines 479-509: the media option for a label size that is given
MediaOption(cfg, c, sel, printer_name, label_size, attrsFail) ==
    LET config_sizes == cfg.LABEL_SIZES
        in_config == /\ cfg.sizes_shape \in {"dict", "list"}
                     /\ \E i \in 1..Len(config_sizes) : config_sizes[i][1] = label_size
        converted == _convert_to_cups_media_format(cfg, c, sel, label_size, printer_name, 0)
    IN
    IF ~_should_use_cups(cfg) THEN label_size
    ELSE IF attrsFail \/ AttrsRaise(c, printer_name) THEN label_size
    ELSE IF \E i \in 1..Len(c.media_supported) : c.media_supported[i] = label_size
         THEN label_size
    ELSE IF in_config THEN (IF converted.ok THEN converted.v ELSE label_size)
    ELSE label_size

\* lines 464-470: the printer the job is sent to; the tests are
\* 'is None', so an empty name of the request or of CONFIG is kept.
\* CONFIG['PRINTER'].get("PRINTER"): None for a missing key, '' for an
\* empty one
print_label_printer(cfg, c, printer) ==
    LET configured == IF printer # None THEN printer ELSE cfg.PRINTER
    IN IF configured # None THEN configured ELSE c.default

\* lines 460-520: saveRaises, attrsFail and printFail say whether im.save,
\* conn.getPrinterAttributes and conn.printFile fail on this call
print_label_body(cfg, c, sel, printer, label_size, quantity, saveRaises, attrsFail, printFail) ==
    LET printer_name == print_label_printer(cfg, c, printer)
        \* no media option for a label size that is None or empty
        media == IF label_size = <<>> THEN <<>>
                 ELSE MediaOption(cfg, c, sel, printer_name, label_size, attrsFail)
    IN
    IF saveRaises THEN BodyRaises("im.save")
    ELSE IF ConnRaises(c) THEN BodyRaises("cups.Connection")
    ELSE IF printFail \/ printer_name # CupsPrinter THEN BodyRaises("conn.printFile")
    ELSE Submits(printer_name, media, quantity)

\* print_label without its except clause
print_label_noExcept(cfg, c, sel, printer, label_size, quantity, saveRaises, attrsFail, printFail) ==
    LET body == print_label_body(cfg, c, sel, printer, label_size, quantity, saveRaises,
                                 attrsFail, printFail)
    IN [raises |-> body.raises, success |-> ~body.raises, message |-> "",
        job |-> body.job]

print_label(cfg, c, sel, printer, label_size, quantity, saveRaises, attrsFail, printFail) ==
    LET body == print_label_body(cfg, c, sel, printer, label_size, quantity, saveRaises,
                                 attrsFail, printFail)
    IN [raises |-> FALSE, success |-> ~body.raises, message |-> body.message,
        job |-> body.job]

PrintIds == {<<>>, Id_62, Id_oe62}

PrintSizes ==
    { [shape |-> "dict", sizes |-> <<>>],
      [shape |-> "dict", sizes |-> <<<<Id_62, LabelOf(Id_62)>>>>],
      [shape |-> "list", sizes |-> <<<<Id_62, LabelOf(Id_62)>>>>] }

\* initialize has put a PRINTER section into the configuration
PrintConfigs ==
    { [BaseConfig EXCEPT !.USE_CUPS = u, !.PRINTER = p,
                         !.sizes_shape = ls.shape, !.LABEL_SIZES = ls.sizes,
                         !.LABEL_PRINTABLE_AREA = a] :
        u \in BOOLEAN, p \in {None, "", CupsPrinter}, ls \in PrintSizes,
        a \in CatalogAreas }

PrintCups ==
    { [up |-> u, default |-> CupsPrinter, media_supported |-> ms, media_sizes |-> <<>>,
       resolution |-> <<>>, jobs |-> <<>>] :
        u \in BOOLEAN, ms \in SeqsUpTo({Id_oe62}, MaxMedia - 1) }

Quantities == {1, 2}

InitPrint ==
    /\ CONFIG \in PrintConfigs
    /\ cups \in PrintCups
    /\ selected_printer = initialize_selected(CONFIG, cups)
    /\ op = "idle"
    /\ args = <<>>
    /\ result = Idle
    /\ backlog = <<>>
    /\ StartUp

PrintLabel(printer, label_size, quantity, saveRaises, attrsFail, printFail) ==
    /\ isIdle
    /\ Len(cups.jobs) < MaxJobs
    /\ op' = "print_label"
    /\ args' = [printer |-> printer, label_size |-> label_size, quantity |-> quantity,
                saveRaises |-> saveRaises, attrsFail |-> attrsFail,
                printFail |-> printFail]
    /\ result' = print_label(CONFIG, cups, selected_printer, printer, label_size,
                             quantity, saveRaises, attrsFail, printFail)
    /\ cups' = IF ~result'.success THEN cups
               ELSE [cups EXCEPT !.jobs = Append(@, result'.job)]
    /\ UNCHANGED <<CONFIG, selected_printer, backlog, globals>>

NextPrint ==
    \/ \E printer \in PrinterNames, label_size \in PrintIds, quantity \in Quantities,
          saveRaises \in BOOLEAN, attrsFail \in BOOLEAN, printFail \in BOOLEAN :
          PrintLabel(printer, label_size, quantity, saveRaises, attrsFail, printFail)
    \/ Respond

SpecPrint == InitPrint /\ [][NextPrint]_vars

(***************************************************************************)
(* Properties of print_label                                               *)
(***************************************************************************)
\* a step that runs print_label
PrintStep == op = "idle" /\ op' = "print_label"

\* the step hands the job it built to the print server
HandedOver == cups'.jobs = Append(cups.jobs, result'.job)

\* the step asks the print server for the printer's media and the request fails
LookupFails ==
    /\ args'.label_size # <<>>
    /\ _should_use_cups(CONFIG)
    /\ args'.attrsFail

PrintOriginal ==
    PrintStep =>
        /\ ~result'.raises
        /\ (result'.success => HandedOver)
        /\ (args'.saveRaises \/ ~cups.up \/ LookupFails \/ args'.printFail) =>
              (~result'.success /\ result'.message # "")

\* C17 as stated: print_label never raises, reports success only when the
\* job was handed to the print server, and reports success False with a
\* message for every failure of image saving, connection, media lookup or
\* submission.
C17_Original == [][PrintOriginal]_vars

PrintOutcome ==
    PrintStep =>
        /\ ~result'.raises
        /\ (result'.success <=> HandedOver)
        /\ (~result'.success => (cups' = cups /\ result'.message # ""))
        /\ (args'.saveRaises \/ ~cups.up \/ args'.printFail) => ~result'.success
        /\ (LookupFails /\ result'.success) => result'.job.media = args'.label_size

\* C17, amended: print_label never raises; it reports success exactly when
\* the job was handed to the print server; a failure of image saving,
\* connection or submission gives success False with the error text and no
\* job; a failed media lookup alone does not fail the print: the job goes
\* out with the label size as its media.
C17_PrintOutcome == [][PrintOutcome]_vars

\* a print whose media lookup failed and whose job was handed over
C17_Witness ==
    /\ op = "print_label"
    /\ args.attrsFail /\ args.label_size = Id_62 /\ _should_use_cups(CONFIG)
    /\ result.success
    /\ Len(cups.jobs) = 1 /\ cups.jobs[1].media = Id_62

(***************************************************************************)
(* brother_ql_web.create_label_im and the font fitting it calls            *)
(***************************************************************************)
MIN_FONT_SIZE == 2

\* a LABEL_PRINTABLE_AREA entry {dimensions: [w, h], offset: {...}}
OffsetRecord(w, h, enabled, offset_x, offset_y) ==
    [shape |-> "record", w |-> w, h |-> h, enabled |-> enabled,
     offset_x |-> offset_x, offset_y |-> offset_y]

\* draw.multiline_textbbox: a text of text.lines lines, the longest of
\* text.chars characters, set in a font of the given size
TextBox(text, font_size) == <<(text.chars * font_size) \div 2, text.lines * font_size>>

Fits(text, font_size, max_size, margin_h, margin_v) ==
    /\ TextBox(text, font_size)[1] + margin_h <= max_size[1]
    /\ TextBox(text, font_size)[2] + margin_v <= max_size[2]

RECURSIVE adjust_font_to_fit(_, _, _, _, _, _)
\* ElementBase.adjust_font_to_fit: the size is decreased by one until the
\* text box plus margins fits or the minimum is reached
adjust_font_to_fit(font_size, text, max_size, min_size, margin_h, margin_v) ==
    IF Fits(text, font_size, max_size, margin_h, margin_v) \/ font_size <= min_size
    THEN font_size
    ELSE adjust_font_to_fit(font_size - 1, text, max_size, min_size, margin_h, margin_v)

\* int(font_size * percent / 100.) for the four margins of a request
MarginsOf(font_size) ==
    [top |-> (font_size * 24) \div 100, bottom |-> (font_size * 45) \div 100,
     left |-> (font_size * 35) \div 100, right |-> (font_size * 35) \div 100]

\* get_label_offset without the max(..., 0) of line 427
get_label_offset_unclamped(calculated_width, calculated_height, textsize, orientation, margins) ==
    IF orientation = "standard"
    THEN <<(calculated_width - textsize[1]) \div 2, margins.top>>
    ELSE IF orientation = "rotated"
    THEN <<margins.left,
           (calculated_height - textsize[2]) \div 2 + (margins.top - margins.bottom) \div 2>>
    ELSE <<0, 0>>

\* lines 417-433: the pair (horizontal_offset, vertical_offset); // is the
\* floor division, as \div is; textsize is a pair and so never empty
get_label_offset(calculated_width, calculated_height, textsize, orientation, margins) ==
    IF orientation = "standard"
    THEN <<Max((calculated_width - textsize[1]) \div 2, 0), margins.top>>
    ELSE IF orientation = "rotated"
    THEN <<margins.left,
           (calculated_height - textsize[2]) \div 2 + (margins.top - margins.bottom) \div 2>>
    ELSE <<0, 0>>

ImageRaises == [kind |-> "raise", size |-> <<0, 0>>, content_at |-> <<0, 0>>,
                text_at |-> <<0, 0>>, font |-> 0]

\* line 477: 'adjusted_text_size != textsize' compares the fitted font
\* size, a number, with the text box, a pair
font_rebuilt(adjusted_text_size, textsize) == <<adjusted_text_size>> # textsize

\* create_label_im that lets the font shrink to nothing
create_label_im_noFloor(text, font_size, dims, orientation) ==
    LET margins == MarginsOf(font_size)
        textsize == TextBox(text, font_size)
        adjusted_text_size ==
            adjust_font_to_fit(font_size, text, <<dims.w, dims.h>>, 0,
                               margins.left + margins.right, margins.top + margins.bottom)
    IN
    IF dims.kind # "px" THEN ImageRaises
    ELSE [kind |-> "image", size |-> <<dims.w, dims.h>>, content_at |-> <<0, 0>>,
          text_at |-> get_label_offset(dims.w, dims.h, textsize, orientation, margins),
          font |-> adjusted_text_size,
          rebuilt |-> font_rebuilt(adjusted_text_size, textsize)]

\* dims is the width and height of the context; the text is drawn straight
\* onto a canvas of that size, so the painted content starts at (0, 0)
create_label_im(text, font_size, dims, orientation) ==
    LET margins == MarginsOf(font_size)
        textsize == TextBox(text, font_size)
        adjusted_text_size ==
            adjust_font_to_fit(font_size, text, <<dims.w, dims.h>>, MIN_FONT_SIZE,
                               margins.left + margins.right, margins.top + margins.bottom)
    IN
    \* Image.new('RGB', (width, height)) takes a pair of integers only
    IF dims.kind # "px" THEN ImageRaises
    ELSE [kind |-> "image", size |-> <<dims.w, dims.h>>, content_at |-> <<0, 0>>,
          text_at |-> get_label_offset(dims.w, dims.h, textsize, orientation, margins),
          font |-> adjusted_text_size,
          rebuilt |-> font_rebuilt(adjusted_text_size, textsize)]

RenderEntries ==
    { Legacy(696, 271), Legacy(20, 10), OffsetRecord(696, 271, TRUE, 10, 5),
      OffsetRecord(696, 271, FALSE, 10, 5) }

\* LABEL_PRINTABLE_AREA over any of the keys '62' and '4x6in'
RenderAreas == UNION {[K -> RenderEntries] : K \in SUBSET {Id_62, Id_4x6in}}

RenderConfigs ==
    { [BaseConfig EXCEPT !.USE_CUPS = u, !.PRINTER = CupsPrinter,
                         !.LABEL_PRINTABLE_AREA = a] :
        u \in BOOLEAN, a \in RenderAreas }

RenderCups ==
    { [up |-> u, default |-> CupsPrinter, media_supported |-> <<>>,
       media_sizes |-> <<>>, resolution |-> <<>>] : u \in BOOLEAN }

RenderIds == {Id_62, Id_4x6in, Id_oe62}
FontSizes == {1, 8, 40}
MinSizes == {MIN_FONT_SIZE, 8}
Texts == {[chars |-> 1, lines |-> 1], [chars |-> 40, lines |-> 3]}
Boxes == {<<20, 10>>, <<300, 200>>, <<1218, 812>>}

InitRender ==
    /\ CONFIG \in RenderConfigs
    /\ cups \in RenderCups
    /\ selected_printer = initialize_selected(CONFIG, cups)
    /\ op = "idle"
    /\ args = <<>>
    /\ result = Idle
    /\ backlog = <<>>
    /\ StartUp

\* get_preview_image: the context of the request, then the image
PreviewText(text, font_size, label_size, orientation) ==
    /\ isIdle
    /\ op' = "create_label_im"
    /\ args' = [text |-> text, font_size |-> font_size, label_size |-> label_size,
                orientation |-> orientation]
    /\ result' =
          LET context == get_label_context(CONFIG, cups, selected_printer, label_size,
                                           None, orientation)
          IN IF context.kind = "raise" THEN ImageRaises
             ELSE create_label_im(text, font_size, context, orientation)
    /\ UNCHANGED <<CONFIG, cups, selected_printer, backlog, globals>>

\* the font fitting applied on its own
AdjustFontToFit(font_size, text, max_size, min_size) ==
    /\ isIdle
    /\ op' = "adjust_font_to_fit"
    /\ args' = [text |-> text, font_size |-> font_size, max_size |-> max_size,
                min_size |-> min_size]
    /\ result' = [kind |-> "font", size |-> <<0, 0>>, content_at |-> <<0, 0>>,
                  text_at |-> <<0, 0>>,
                  font |-> adjust_font_to_fit(font_size, text, max_size, min_size,
                                              MarginsOf(font_size).left
                                                + MarginsOf(font_size).right,
                                              MarginsOf(font_size).top
                                                + MarginsOf(font_size).bottom)]
    /\ UNCHANGED <<CONFIG, cups, selected_printer, backlog, globals>>

\* canvases, text boxes and margins for get_label_offset on its own: the
\* text may be larger than the canvas, differences may be odd or negative
OffsetCanvases == {<<20, 10>>, <<301, 200>>}
OffsetBoxes == {<<25, 13>>, <<20, 10>>, <<300, 7>>}
OffsetMargins ==
    { [top |-> t, bottom |-> b, left |-> l, right |-> l] :
        t \in {0, 9}, b \in {0, 18}, l \in {0, 14} }

\* instance.get_label_offset(width, height, textsize, **kwargs)
GetLabelOffset(canvas, textsize, orientation, margins) ==
    /\ isIdle
    /\ op' = "get_label_offset"
    /\ args' = [canvas |-> canvas, textsize |-> textsize, orientation |-> orientation,
                margins |-> margins]
    /\ result' = [kind |-> "offset", size |-> canvas, content_at |-> <<0, 0>>,
                  text_at |-> get_label_offset(canvas[1], canvas[2], textsize,
                                               orientation, margins),
                  font |-> 0]
    /\ UNCHANGED <<CONFIG, cups, selected_printer, backlog, globals>>

NextRender ==
    \/ \E text \in Texts, font_size \in FontSizes, label_size \in RenderIds,
          orientation \in Orientations :
          PreviewText(text, font_size, label_size, orientation)
    \/ \E canvas \in OffsetCanvases, textsize \in OffsetBoxes,
          orientation \in Orientations \cup {"landscape"}, margins \in OffsetMargins :
          GetLabelOffset(canvas, textsize, orientation, margins)
    \/ \E font_size \in FontSizes, text \in Texts, max_size \in Boxes,
          min_size \in MinSizes :
          AdjustFontToFit(font_size, text, max_size, min_size)
    \/ Respond

SpecRender == InitRender /\ [][NextRender]_vars

(***************************************************************************)
(* Properties of the composed image                                        *)
(***************************************************************************)
isImageCall == op = "create_label_im"

\* the pixel size resolved for the request
resolvedSize ==
    get_label_context(CONFIG, cups, selected_printer, args.label_size, None,
                      args.orientation)

hasAreaEntry ==
    /\ CONFIG.has_PRINTER /\ CONFIG.has_AREA
    /\ args.label_size \in DOMAIN CONFIG.LABEL_PRINTABLE_AREA

offsetEnabled ==
    /\ hasAreaEntry
    /\ CONFIG.LABEL_PRINTABLE_AREA[args.label_size].shape = "record"
    /\ CONFIG.LABEL_PRINTABLE_AREA[args.label_size].enabled

\* C18: with an enabled offset record for the size identifier the bitmap is
\* the resolved pixel size grown by (offset_x, offset_y) and the content is
\* placed at (offset_x, offset_y); without one the bitmap has exactly the
\* resolved pixel size and the content is at (0, 0).
C18_OffsetCanvas ==
    isImageCall =>
        /\ result.kind = "image"
        /\ resolvedSize.kind = "px"
        /\ IF offsetEnabled
           THEN LET offset == CONFIG.LABEL_PRINTABLE_AREA[args.label_size] IN
                /\ result.size = <<resolvedSize.w + offset.offset_x,
                                   resolvedSize.h + offset.offset_y>>
                /\ result.content_at = <<offset.offset_x, offset.offset_y>>
           ELSE /\ result.size = <<resolvedSize.w, resolvedSize.h>>
                /\ result.content_at = <<0, 0>>

\* the sizes the fitting tried and left: none of them fits
NoLargerFits(text, start, found, max_size, margin_h, margin_v) ==
    \A s \in (found + 1)..start : ~Fits(text, s, max_size, margin_h, margin_v)

fitMargins == MarginsOf(args.font_size)

\* the size a fitting returned is sound for the start and minimum it had
FitIsSound(found, max_size, min_size) ==
    LET margin_h == fitMargins.left + fitMargins.right
        margin_v == fitMargins.top + fitMargins.bottom
    IN /\ found >= min_size
       /\ found > 0
       /\ found <= args.font_size
       /\ Fits(args.text, found, max_size, margin_h, margin_v) \/ found = min_size
       /\ NoLargerFits(args.text, args.font_size, found, max_size, margin_h, margin_v)

isOffsetCall == op = "get_label_offset"

\* q is the floor of x / 2
IsFloorOfHalf(x, q) == 2 * q <= x /\ x < 2 * q + 2

\* the floor of x / 2, found among the integers around x
FloorOfHalf(x) == CHOOSE q \in -Abs(x)..Abs(x) : IsFloorOfHalf(x, q)

\* C24: for any canvas, text box and margins, orientation 'standard' places
\* the text at the vertical offset margin_top and the horizontal offset
\* floor((canvas_width - text_width) / 2), or 0 when that is negative;
\* orientation 'rotated' places it at the horizontal offset margin_left and
\* the vertical offset floor((canvas_height - text_height) / 2) +
\* floor((margin_top - margin_bottom) / 2).
C24_Offset ==
    isOffsetCall =>
        LET horizontal_offset == result.text_at[1]
            vertical_offset == result.text_at[2]
            free_width == args.canvas[1] - args.textsize[1]
            free_height == args.canvas[2] - args.textsize[2]
        IN /\ args.orientation = "standard" =>
                 /\ vertical_offset = args.margins.top
                 /\ horizontal_offset = Max(FloorOfHalf(free_width), 0)
                 /\ horizontal_offset >= 0
           /\ args.orientation = "rotated" =>
                 /\ horizontal_offset = args.margins.left
                 /\ vertical_offset = FloorOfHalf(free_height)
                       + FloorOfHalf(args.margins.top - args.margins.bottom)

\* a rotated text taller than the canvas with a bottom margin larger than
\* the top margin: both halves are floors of odd negative numbers
C24_Witness ==
    /\ isOffsetCall
    /\ args.orientation = "rotated"
    /\ args.canvas[2] - args.textsize[2] = -3
    /\ args.margins.top - args.margins.bottom = -9
    /\ args.margins.left > 0
    /\ result.text_at = <<args.margins.left, -7>>

(***************************************************************************)
(* configuration_management.validate_configuration                         *)
(***************************************************************************)
\* the messages of validate_configuration
NoFontsFound == Err("No fonts found", "", "", "", <<>>)
NoPrintersDetected == Err("No printers detected", "", "", "", <<>>)
PrinterNotFound(p) == Err("Configured default printer not found", p, "", "", <<>>)
NoLabelSizes == Err("No label sizes available", "", "", "", <<>>)
FamilyNotFound(family) == Err("font family not found", "", family, "", <<>>)
StyleNotFound(family, style) == Err("font style not found", "", family, style, <<>>)
SizeNotAvailable(size) == Err("default label size not available", "", "", "", size)

RECURSIVE FontErrors(_, _, _)
\* lines 348-355: the loop over the configured default fonts
FontErrors(fonts_dict, default_fonts_list, i) ==
    IF i > Len(default_fonts_list) THEN <<>>
    ELSE LET family == default_fonts_list[i].family
             style == default_fonts_list[i].style
             here == IF Truthy(family) /\ Truthy(style)
                     THEN IF family \notin DOMAIN fonts_dict
                          THEN <<FamilyNotFound(family)>>
                          ELSE IF style \notin fonts_dict[family]
                               THEN <<StyleNotFound(family, style)>>
                               ELSE <<>>
                     ELSE <<>>
         IN here \o FontErrors(fonts_dict, default_fonts_list, i + 1)

\* the validation without the test of line 334
validate_configuration_anyPrinter(fonts_dict, label_sizes_dict, printers_list, config) ==
    LET configured_printer == IF config.has_PRINTER THEN config.PRINTER ELSE None
    IN (IF DOMAIN fonts_dict = {} THEN <<NoFontsFound>> ELSE <<>>)
       \o (IF printers_list = <<>> THEN <<NoPrintersDetected>>
           ELSE IF \A i \in 1..Len(printers_list) : printers_list[i] # configured_printer
                THEN <<PrinterNotFound(configured_printer)>>
                ELSE <<>>)
       \o (IF DOMAIN label_sizes_dict = {} THEN <<NoLabelSizes>> ELSE <<>>)
       \o FontErrors(fonts_dict, config.DEFAULT_FONTS.fonts, 1)
       \o (IF config.DEFAULT_SIZE # <<>> /\ DOMAIN label_sizes_dict # {}
              /\ config.DEFAULT_SIZE \notin DOMAIN label_sizes_dict
           THEN <<SizeNotAvailable(config.DEFAULT_SIZE)>>
           ELSE <<>>)

\* lines 321-363; DEFAULT_SIZE '' or missing is <<>>
validate_configuration(fonts_dict, label_sizes_dict, printers_list, config) ==
    LET configured_printer == IF config.has_PRINTER THEN config.PRINTER ELSE None
    IN (IF DOMAIN fonts_dict = {} THEN <<NoFontsFound>> ELSE <<>>)
       \o (IF printers_list = <<>> THEN <<NoPrintersDetected>>
           ELSE IF Truthy(configured_printer)
                   /\ \A i \in 1..Len(printers_list) : printers_list[i] # configured_printer
                THEN <<PrinterNotFound(configured_printer)>>
                ELSE <<>>)
       \o (IF DOMAIN label_sizes_dict = {} THEN <<NoLabelSizes>> ELSE <<>>)
       \o FontErrors(fonts_dict, config.DEFAULT_FONTS.fonts, 1)
       \o (IF config.DEFAULT_SIZE # <<>> /\ DOMAIN label_sizes_dict # {}
              /\ config.DEFAULT_SIZE \notin DOMAIN label_sizes_dict
           THEN <<SizeNotAvailable(config.DEFAULT_SIZE)>>
           ELSE <<>>)

\* the fonts found on the system: family -> styles
FontMaps ==
    { [f \in {} |-> {}], [f \in {"Arial"} |-> {"Bold"}],
      [f \in {"Arial", "DejaVu Sans"} |-> IF f = "Arial" THEN {"Bold", "Italic"} ELSE {"Book"}] }

\* font dicts of a configuration; None: the key is missing
ConfiguredFonts ==
    { Font(f, s) : f \in {None, "Arial", "Missing"}, s \in {"", "Bold", "Book"} }

DefaultFontShapes ==
    {FontList(<<>>)} \cup {FontList(<<d>>) : d \in ConfiguredFonts}
    \cup {FontDict(d) : d \in ConfiguredFonts}
    \cup {FontList(<<Font("Missing", "Bold"), Font("Arial", "Bold")>>)}

\* the label sizes available: key -> label
LabelSizeDicts == { [k \in K |-> LabelOf(k)] : K \in {{}, {Id_62}, {Id_62, Id_oe62}} }

PrinterLists == {<<>>, <<CupsPrinter>>, <<"p2", CupsPrinter>>}

\* the PRINTER key may be missing, and so may the PRINTER section
ValidateConfigs ==
    { [BaseConfig EXCEPT !.has_PRINTER = h, !.PRINTER = p, !.DEFAULT_FONTS = df,
                         !.DEFAULT_SIZE = ds] :
        h \in BOOLEAN, p \in {None, "", CupsPrinter, "other"}, df \in DefaultFontShapes,
        ds \in {<<>>, Id_62, Id_4x6in} }
    \ { [BaseConfig EXCEPT !.has_PRINTER = FALSE, !.PRINTER = p, !.DEFAULT_FONTS = df,
                           !.DEFAULT_SIZE = ds] :
          p \in {"", CupsPrinter, "other"}, df \in DefaultFontShapes,
          ds \in {<<>>, Id_62, Id_4x6in} }

InitValidate ==
    /\ CONFIG \in ValidateConfigs
    /\ cups \in {c \in CupsStates : c.media_supported = <<>> /\ c.resolution = <<>>}
    /\ selected_printer = initialize_selected(CONFIG, cups)
    /\ op = "idle"
    /\ args = <<>>
    /\ result = Idle
    /\ backlog = <<>>
    /\ StartUp

ValidateConfiguration(fonts_dict, label_sizes_dict, printers_list) ==
    /\ isIdle
    /\ op' = "validate_configuration"
    /\ args' = [fonts_dict |-> fonts_dict, label_sizes_dict |-> label_sizes_dict,
                printers_list |-> printers_list]
    /\ result' = [kind |-> "errors",
                  errors |-> validate_configuration(fonts_dict, label_sizes_dict,
                                                    printers_list, CONFIG)]
    /\ UNCHANGED <<CONFIG, cups, selected_printer, backlog, globals>>

NextValidate ==
    \/ \E f \in FontMaps, ls \in LabelSizeDicts, p \in PrinterLists :
          ValidateConfiguration(f, ls, p)
    \/ Respond

SpecValidate == InitValidate /\ [][NextValidate]_vars

(***************************************************************************)
(* Properties of validate_configuration                                    *)
(***************************************************************************)
isValidateCall == op = "validate_configuration"

validatedPrinter == IF CONFIG.has_PRINTER THEN CONFIG.PRINTER ELSE None

\* every configured default font with a family and a style is installed
defaultFontsExist ==
    \A i \in 1..Len(CONFIG.DEFAULT_FONTS.fonts) :
        LET font == CONFIG.DEFAULT_FONTS.fonts[i] IN
        (Truthy(font.family) /\ Truthy(font.style)) =>
            /\ font.family \in DOMAIN args.fonts_dict
            /\ font.style \in args.fonts_dict[font.family]

\* C21: validate_configuration returns the empty list exactly when fonts,
\* printers and label sizes are present, the configured printer is empty or
\* listed, the configured default fonts exist and DEFAULT_SIZE is empty or
\* a key of the label sizes.  With printers present an empty configured
\* printer is not reported and a configured printer missing from the list
\* is reported by name; an empty printer list is reported as 'No printers
\* detected'.
C21_Validate ==
    isValidateCall =>
        /\ (result.errors = <<>>) <=>
              /\ DOMAIN args.fonts_dict # {}
              /\ args.printers_list # <<>>
              /\ ~Truthy(validatedPrinter) \/ InList(validatedPrinter, args.printers_list)
              /\ DOMAIN args.label_sizes_dict # {}
              /\ defaultFontsExist
              /\ CONFIG.DEFAULT_SIZE = <<>> \/ CONFIG.DEFAULT_SIZE \in DOMAIN args.label_sizes_dict
        /\ (args.printers_list # <<>> /\ ~Truthy(validatedPrinter)) =>
              \A i \in 1..Len(result.errors) :
                  result.errors[i].kind \notin {PrinterNotFound("").kind, NoPrintersDetected.kind}
        /\ (args.printers_list # <<>> /\ Truthy(validatedPrinter)
              /\ ~InList(validatedPrinter, args.printers_list)) =>
              InList(PrinterNotFound(validatedPrinter), result.errors)
        /\ args.printers_list = <<>> => InList(NoPrintersDetected, result.errors)

\* an empty configured printer validated against a list of printers, with
\* nothing else to report
C21_Witness ==
    /\ isValidateCall
    /\ validatedPrinter = ""
    /\ args.printers_list # <<>>
    /\ Len(CONFIG.DEFAULT_FONTS.fonts) > 0
    /\ result.errors = <<>>

(***************************************************************************)
(* implementation.initialize and get_printers, called on one instance.     *)
(* cups.setServer names the server for the whole process; _get_conn        *)
(* connects to the server named last.                                      *)
(***************************************************************************)
ErrorGettingPrinters == Err("Error getting list of printers from CUPS server", "", "", "", <<>>)

\* lines 435-455: the printers, asked of the server the process is set to
get_printers(cfg, c, server_ip) ==
    IF ~_should_use_cups(cfg)
    THEN IF Truthy(cfg.PRINTER) THEN <<cfg.PRINTER>> ELSE <<>>
    ELSE IF ConnRaises(ServerAt(c, server_ip)) THEN <<>> ELSE <<CupsPrinter>>

\* lines 446-454: the error get_printers records, once
get_printers_errors(cfg, c, server_ip, errors) ==
    IF _should_use_cups(cfg) /\ ConnRaises(ServerAt(c, server_ip))
         /\ \A i \in 1..Len(errors) : errors[i] # ErrorGettingPrinters
    THEN Append(errors, ErrorGettingPrinters)
    ELSE errors

Servers == {None, "localhost", "cups.example"}

\* configurations handed to initialize: the PRINTER section may be missing
InstanceConfigs ==
    { [BaseConfig EXCEPT !.has_PRINTER = h, !.USE_CUPS = u, !.SERVER = s, !.PRINTER = p] :
        h \in BOOLEAN, u \in BOOLEAN, s \in Servers, p \in {None, "", CupsPrinter, "p2"} }

InstanceCups ==
    { [up |-> u, default |-> d, media_supported |-> <<>>, media_sizes |-> <<>>,
       resolution |-> <<>>] : u \in BOOLEAN, d \in {CupsPrinter, None} }

\* self.CONFIG = None of a new instance
NoConfig == [unset |-> TRUE]

\* implementation.__init__ (lines 37-45); no server has been named yet
InitInstance ==
    /\ CONFIG = NoConfig
    /\ cups \in InstanceCups
    /\ selected_printer = None
    /\ initialization_errors = <<>>
    /\ server = None
    /\ op = "idle"
    /\ args = <<>>
    /\ result = Idle
    /\ backlog = <<>>
    /\ PRINTERS = None
    /\ LABEL_SIZES = None
    /\ FONTS = <<>>
    /\ CONFIG_ERRORS = <<>>

\* instance.initialize(config)
Initialize(config) ==
    /\ isIdle
    /\ op' = "initialize"
    /\ args' = [config |-> config, before |-> initialization_errors]
    /\ CONFIG' = initialize_config(config)
    /\ server' = initialize_server(config)
    /\ initialization_errors' = initialize_errors(config, cups, initialization_errors)
    /\ selected_printer' = initialize_printer(config, cups)
    /\ result' = [kind |-> "initialized", returned |-> ""]
    /\ UNCHANGED <<cups, backlog, PRINTERS, LABEL_SIZES, FONTS, CONFIG_ERRORS>>

\* instance.get_printers() on an initialized instance
GetPrinters ==
    /\ isIdle
    /\ CONFIG # NoConfig
    /\ op' = "get_printers"
    /\ args' = [before |-> initialization_errors]
    /\ result' = [kind |-> "printers", printers |-> get_printers(CONFIG, cups, server)]
    /\ initialization_errors' = get_printers_errors(CONFIG, cups, server,
                                                    initialization_errors)
    /\ UNCHANGED <<CONFIG, cups, selected_printer, server, backlog,
                   PRINTERS, LABEL_SIZES, FONTS, CONFIG_ERRORS>>

\* the print server stops answering, or answers again
CupsChanges ==
    /\ isIdle
    /\ cups' = [cups EXCEPT !.up = ~cups.up]
    /\ UNCHANGED <<CONFIG, selected_printer, op, args, result, backlog, globals>>

NextInstance ==
    \/ \E config \in InstanceConfigs : Initialize(config)
    \/ GetPrinters
    \/ CupsChanges
    \/ Respond

SpecInstance == InitInstance /\ [][NextInstance]_vars

(***************************************************************************)
(* Properties of initialize                                                *)
(***************************************************************************)
isInitializeCall == op = "initialize"

\* the print server named by the configuration answers
cupsReachable ==
    LET section == args.config.has_PRINTER
        named == IF section THEN args.config.SERVER ELSE None
    IN cups.up /\ named \in {None, "localhost"}

configuredPrinter == IF args.config.has_PRINTER THEN args.config.PRINTER ELSE None

Count(list, x) == Cardinality({i \in 1..Len(list) : list[i] = x})

\* C22: after an initialize call, whatever calls came before, the selected
\* printer is the configured PRINTER.PRINTER when that is not empty and
\* otherwise the CUPS default printer (None when CUPS is unreachable); the
\* errors are those of this call only, none when the PRINTER section exists
\* and CUPS is reachable; a missing PRINTER section has become an empty
\* dict in the instance's CONFIG and is recorded as one error.
C22_LastCallOnly ==
    isInitializeCall =>
        /\ selected_printer = IF Truthy(configuredPrinter) THEN configuredPrinter
                              ELSE IF cupsReachable THEN cups.default ELSE None
        /\ Len(initialization_errors) =
              (IF args.config.has_PRINTER THEN 0 ELSE 1) + (IF cupsReachable THEN 0 ELSE 1)
        /\ (args.config.has_PRINTER /\ cupsReachable) => initialization_errors = <<>>
        /\ Count(initialization_errors, NoPrinterConfiguration) =
              (IF args.config.has_PRINTER THEN 0 ELSE 1)
        /\ ~args.config.has_PRINTER =>
              /\ CONFIG.has_PRINTER
              /\ ~CONFIG.USE_CUPS /\ CONFIG.PRINTER = None /\ CONFIG.SERVER = None
              /\ CONFIG.LABEL_SIZES = <<>> /\ ~CONFIG.has_AREA
        /\ args.config.has_PRINTER => CONFIG = args.config

\* an initialize call that follows a call which left errors, and leaves none
C22_Witness ==
    /\ isInitializeCall
    /\ args.before # <<>>
    /\ initialization_errors = <<>>
    /\ selected_printer = cups.default
    /\ configuredPrinter = ""

(***************************************************************************)
(* configuration_management.filter_printers and compute_printer_selection  *)
(***************************************************************************)
\* lines 273-286; a missing list and an empty one are both <<>>
filter_printers(printers_list, config) ==
    LET include == IF config.has_PRINTER THEN config.PRINTERS_INCLUDE ELSE <<>>
        exclude == IF config.has_PRINTER THEN config.PRINTERS_EXCLUDE ELSE <<>>
        Included(p) == InList(p, include)
        NotExcluded(p) == ~InList(p, exclude)
        filtered == IF include # <<>> THEN SelectSeq(printers_list, Included)
                    ELSE printers_list
    IN IF exclude # <<>> THEN SelectSeq(filtered, NotExcluded) ELSE filtered

\* label_sizes_list_to_dict: the last pair of a key gives its label
label_sizes_list_to_dict(label_sizes_list) ==
    LET n == Len(label_sizes_list)
        Last(k) == CHOOSE i \in 1..n :
                      /\ label_sizes_list[i][1] = k
                      /\ \A j \in (i + 1)..n : label_sizes_list[j][1] # k
    IN [k \in {label_sizes_list[i][1] : i \in 1..n} |-> label_sizes_list[Last(k)][2]]

\* compute_printer_selection that defaults to the selected printer unseen
compute_printer_selection_unfiltered(c, sel, printers, config) ==
    LET filtered_printers == filter_printers(IF printers = None THEN <<>> ELSE printers,
                                             config)
        default_printer == IF Truthy(sel) THEN sel
                           ELSE IF filtered_printers # <<>> THEN filtered_printers[1]
                           ELSE None
        label_sizes_list == get_label_sizes(config, c, sel, default_printer)
    IN IF ~label_sizes_list.ok THEN Raises
       ELSE Returned([filtered_printers |-> filtered_printers,
                      default_printer |-> default_printer,
                      label_sizes |-> label_sizes_list_to_dict(
                          filter_label_sizes_for_printer(label_sizes_list.v,
                                                         default_printer, config))])

\* lines 366-378; the instance is given by its print server c, its selected
\* printer sel and its CONFIG, which is the config argument at every call
compute_printer_selection(c, sel, printers, config) ==
    LET filtered_printers == filter_printers(IF printers = None THEN <<>> ELSE printers,
                                             config)
        default_printer == IF Truthy(sel) /\ InList(sel, filtered_printers) THEN sel
                           ELSE IF filtered_printers # <<>> THEN filtered_printers[1]
                           ELSE None
        label_sizes_list == get_label_sizes(config, c, sel, default_printer)
    IN IF ~label_sizes_list.ok THEN Raises
       ELSE Returned([filtered_printers |-> filtered_printers,
                      default_printer |-> default_printer,
                      label_sizes |-> label_sizes_list_to_dict(
                          filter_label_sizes_for_printer(label_sizes_list.v,
                                                         default_printer, config))])

SelectIncludes == {<<>>, <<CupsPrinter>>, <<"p3", CupsPrinter>>, <<"p4">>}
SelectExcludes == {<<>>, <<CupsPrinter>>, <<"p2">>}
SelectEnabled == {NoEnabled, [x \in {CupsPrinter} |-> <<Id_oe62>>]}

SelectConfigs ==
    { [BaseConfig EXCEPT !.has_PRINTER = h, !.PRINTER = p,
                         !.LABEL_SIZES = <<<<Id_62, LabelOf(Id_62)>>>>,
                         !.LABEL_PRINTABLE_AREA = a, !.ENABLED_SIZES = e,
                         !.PRINTERS_INCLUDE = inc, !.PRINTERS_EXCLUDE = exc] :
        h \in BOOLEAN, p \in {"", CupsPrinter, "p2"}, a \in CatalogAreas,
        e \in SelectEnabled, inc \in SelectIncludes, exc \in SelectExcludes }

SelectCups ==
    { [up |-> u, default |-> CupsPrinter, media_supported |-> <<Id_oe62>>,
       media_sizes |-> <<>>, resolution |-> <<>>] : u \in BOOLEAN }

\* PRINTERS: None until main() has filled it
SelectPrinters ==
    {None, <<>>, <<CupsPrinter>>, <<"p2", CupsPrinter>>, <<"p3", "p2", CupsPrinter>>,
     <<CupsPrinter, "p2", CupsPrinter>>}

InitSelect ==
    /\ CONFIG \in SelectConfigs
    /\ cups \in SelectCups
    /\ selected_printer = initialize_selected(CONFIG, cups)
    /\ op = "idle"
    /\ args = <<>>
    /\ result = Idle
    /\ backlog = <<>>
    /\ StartUp

\* labeldesigner and templatePrint: compute_printer_selection(instance,
\* PRINTERS, CONFIG, logger)
ComputePrinterSelection(printers) ==
    /\ isIdle
    /\ op' = "compute_printer_selection"
    /\ args' = [printers |-> printers]
    /\ result' = compute_printer_selection(cups, selected_printer, printers, CONFIG)
    /\ UNCHANGED <<CONFIG, cups, selected_printer, backlog, globals>>

NextSelect ==
    \/ \E printers \in SelectPrinters : ComputePrinterSelection(printers)
    \/ Respond

SpecSelect == InitSelect /\ [][NextSelect]_vars

(***************************************************************************)
(* Properties of compute_printer_selection                                 *)
(***************************************************************************)
isSelectionCall == op = "compute_printer_selection" /\ result.ok

selectionPrinters == IF args.printers = None THEN <<>> ELSE args.printers

\* the printer passes the include and exclude lists
isAllowed(p) ==
    LET include == IF CONFIG.has_PRINTER THEN CONFIG.PRINTERS_INCLUDE ELSE <<>>
        exclude == IF CONFIG.has_PRINTER THEN CONFIG.PRINTERS_EXCLUDE ELSE <<>>
    IN (include = <<>> \/ InList(p, include)) /\ ~InList(p, exclude)

\* C23: the filtered printers are exactly the printers that pass the
\* include list (when it is not empty) and the exclude list, in their
\* original order, whatever ENABLED_SIZES holds; the default printer is the
\* selected printer when that is among them, else the first of them, else
\* None, so it is never an excluded or non-included printer.
C23_PrinterSelection ==
    isSelectionCall =>
        LET filtered == result.v.filtered_printers
            default == result.v.default_printer
            kept == {i \in 1..Len(selectionPrinters) : isAllowed(selectionPrinters[i])}
        IN /\ Len(filtered) = Cardinality(kept)
           /\ \A i \in kept :
                 filtered[Cardinality({j \in kept : j <= i})] = selectionPrinters[i]
           /\ \A e \in SelectEnabled :
                 LET other == compute_printer_selection(cups, selected_printer, args.printers,
                                                        [CONFIG EXCEPT !.ENABLED_SIZES = e])
                 IN other.ok => /\ other.v.filtered_printers = filtered
                                /\ other.v.default_printer = default
           /\ default = IF Truthy(selected_printer) /\ InList(selected_printer, filtered)
                        THEN selected_printer
                        ELSE IF filtered # <<>> THEN filtered[1] ELSE None
           /\ default # None => isAllowed(default) /\ InList(default, selectionPrinters)

\* the selected printer is excluded and another printer becomes the default
C23_Witness ==
    /\ isSelectionCall
    /\ Truthy(selected_printer)
    /\ InList(selected_printer, selectionPrinters)
    /\ ~isAllowed(selected_printer)
    /\ result.v.default_printer \notin {None, selected_printer}
    /\ Len(result.v.filtered_printers) < Len(selectionPrinters)

(***************************************************************************)
(* The settings requests of brother_ql_web: save_settings_api, the         *)
(* requests that read CONFIG, and the requests that try a candidate        *)
(* configuration on a temporary instance.  run() starts bottle's default   *)
(* server, which serves one request at a time: a request that arrives      *)
(* while a handler runs waits in the backlog.                              *)
(***************************************************************************)
MaxPending == 1    \* requests waiting in the server's backlog

\* CONFIG after CONFIG.clear(): no section at all
EmptyConfig ==
    [BaseConfig EXCEPT !.has_PRINTER = FALSE, !.USE_CUPS = FALSE, !.has_AREA = FALSE]

SaveSizes == {<<>>, <<<<Id_62, LabelOf(Id_62)>>>>}

SaveAreas == {NoArea, [x \in {Id_62} |-> Record(696, 271)]}

\* complete configurations: what the file holds, what a client posts
SaveConfigs ==
    { [BaseConfig EXCEPT !.USE_CUPS = u, !.SERVER = s, !.PRINTER = p, !.LABEL_SIZES = ls,
                         !.LABEL_PRINTABLE_AREA = a,
                         !.DEFAULT_FONTS = FontList(<<Font("DejaVu Sans", "Book")>>)] :
        u \in BOOLEAN, s \in {"localhost", "cups.example"}, p \in {"", CupsPrinter},
        ls \in SaveSizes, a \in SaveAreas }

\* the candidates a client asks to validate or preview
PreviewConfigs == { config \in SaveConfigs : config.PRINTER = CupsPrinter /\ config.LABEL_SIZES # <<>> }

\* lines 697-714: the posted sections are merged into a deep copy of
\* CONFIG; LABEL_PRINTABLE_AREA is posted only when it is not empty
MergedConfig(config, new_config) ==
    [config EXCEPT !.has_PRINTER = TRUE,
                   !.USE_CUPS = new_config.USE_CUPS,
                   !.SERVER = new_config.SERVER,
                   !.PRINTER = new_config.PRINTER,
                   !.sizes_shape = new_config.sizes_shape,
                   !.LABEL_SIZES = new_config.LABEL_SIZES,
                   !.ENABLED_SIZES = new_config.ENABLED_SIZES,
                   !.PRINTERS_INCLUDE = new_config.PRINTERS_INCLUDE,
                   !.PRINTERS_EXCLUDE = new_config.PRINTERS_EXCLUDE,
                   !.DEFAULT_SIZE = new_config.DEFAULT_SIZE,
                   !.DEFAULT_FONTS = new_config.DEFAULT_FONTS,
                   !.has_AREA = (config.has_AREA \/ new_config.LABEL_PRINTABLE_AREA # NoArea),
                   !.LABEL_PRINTABLE_AREA =
                       IF new_config.LABEL_PRINTABLE_AREA # NoArea
                       THEN new_config.LABEL_PRINTABLE_AREA
                       ELSE config.LABEL_PRINTABLE_AREA]

\* get_fonts(): the fonts installed on the system
SystemFonts == [f \in {"DejaVu Sans"} |-> {"Book"}]

\* an instance after initialize(config) and get_printers()
InstanceOf(config, c) ==
    [CONFIG |-> initialize_config(config),
     server |-> initialize_server(config),
     selected_printer |-> initialize_printer(config, c),
     printers |-> get_printers(initialize_config(config), c, initialize_server(config)),
     initialization_errors |->
         get_printers_errors(initialize_config(config), c, initialize_server(config),
                             initialize_errors(config, c, <<>>))]

\* filter_label_sizes_for_printer on what get_label_sizes returned, when
\* asked to; an exception passes through
FilteredFor(label_sizes_list, printer, config, filtered) ==
    IF ~label_sizes_list.ok THEN Raises
    ELSE IF filtered
    THEN Returned(filter_label_sizes_for_printer(label_sizes_list.v, printer, config))
    ELSE label_sizes_list

\* get_label_sizes of the instance for a printer, filtered by the enabled
\* sizes of config when asked to
SizesFor(inst, c, printer, config, filtered) ==
    FilteredFor(get_label_sizes(inst.CONFIG, ServerAt(c, inst.server),
                                inst.selected_printer, printer),
                printer, config, filtered)

\* the except clauses of lines 657-660 and 845-847: no sizes
SizesOrNone(sizes) == IF sizes.ok THEN sizes.v ELSE <<>>

\* lines 647-660 and 838-847: the sizes of every printer of the instance;
\* a printer whose sizes cannot be had counts with none.  get_printers
\* returns one printer at most.
AllSizes(inst, c, config, filtered) ==
    IF inst.printers = <<>> THEN <<>>
    ELSE SizesOrNone(SizesFor(inst, c, inst.printers[1], config, filtered))

\* lines 647-679 for the temporary instance
validate_instance(temp_instance, new_config, c) ==
    validate_configuration(SystemFonts,
                           label_sizes_list_to_dict(AllSizes(temp_instance, c, new_config,
                                                             TRUE)),
                           temp_instance.printers, new_config)
    \o temp_instance.initialization_errors

\* validate_settings_api, lines 627-679: the errors reported
validate_settings(new_config, c) ==
    validate_instance(InstanceOf(new_config, c), new_config, c)

\* line 722: the printer whose sizes become LABEL_SIZES
default_printer_of(inst) ==
    IF Truthy(inst.selected_printer) THEN inst.selected_printer
    ELSE IF inst.printers # <<>> THEN inst.printers[1] ELSE None

\* lines 725-740: the globals for the label sizes found
ApplyLabelSizes(inst, ok, label_sizes, config, fonts) ==
    [ok |-> ok,
     selected_printer |-> inst.selected_printer,
     server |-> inst.server,
     initialization_errors |-> inst.initialization_errors,
     PRINTERS |-> inst.printers,
     LABEL_SIZES |-> label_sizes,
     FONTS |-> fonts,
     CONFIG_ERRORS |-> validate_configuration(fonts, label_sizes, inst.printers, config)
                       \o inst.initialization_errors]

\* lines 723-725: sizes is what get_label_sizes and the filter returned
ApplySizes(inst, sizes, config, fonts) ==
    ApplyLabelSizes(inst, sizes.ok, label_sizes_list_to_dict(sizes.v), config, fonts)

\* lines 721-740 for the instance initialized again
ApplyInstance(inst, config, c, fonts) ==
    ApplySizes(inst, SizesFor(inst, c, default_printer_of(inst), config, TRUE), config, fonts)

\* save_settings_api, lines 719-740, on the CONFIG just saved: the globals
\* it leaves, or a failure; fonts are the fonts get_fonts() finds
ApplyWith(config, c, fonts) == ApplyInstance(InstanceOf(config, c), config, c, fonts)

ApplyOf(config, c) == ApplyWith(config, c, SystemFonts)

\* a server that serves requests on several threads
ServerFree_threaded == TRUE

\* the server takes the next request when no handler is running
ServerFree == op = "idle"

\* where a save goes on whatever save_config returned
AfterSaveConfig_unchecked(written) == "save:written"

\* lines 119 and 716: the globals are touched only when save_config
\* returned True; otherwise the handler answers at once
AfterSaveConfig(written) == IF written THEN "save:written" ELSE "save_settings_api"

SavePositions == {"save:written", "save:cleared", "save:updated"}

\* the global state a request finds
GlobalState ==
    [CONFIG |-> CONFIG, selected_printer |-> selected_printer,
     initialization_errors |-> initialization_errors, server |-> server,
     PRINTERS |-> PRINTERS, LABEL_SIZES |-> LABEL_SIZES, FONTS |-> FONTS,
     CONFIG_ERRORS |-> CONFIG_ERRORS]

\* the configuration in force has been saved through the settings page and
\* applied: the globals are those save_settings_api left
InitSave ==
    /\ CONFIG \in SaveConfigs
    /\ cups \in RenderCups
    /\ \E applied \in {ApplyOf(CONFIG, cups)} :
          /\ applied.ok
          /\ selected_printer = applied.selected_printer
          /\ initialization_errors = applied.initialization_errors
          /\ server = applied.server
          /\ PRINTERS = applied.PRINTERS
          /\ LABEL_SIZES = applied.LABEL_SIZES
          /\ FONTS = applied.FONTS
          /\ CONFIG_ERRORS = applied.CONFIG_ERRORS
    /\ op = "idle"
    /\ args = <<>>
    /\ result = Idle
    /\ backlog = <<>>

\* a read request arrives; it notes what the server was doing
RequestArrives ==
    /\ Len(backlog) < MaxPending
    /\ backlog' = Append(backlog,
                         IF op \in SavePositions
                         THEN [during |-> op, old |-> args.old, new |-> args.merged_config]
                         ELSE [during |-> op, old |-> CONFIG, new |-> CONFIG])
    /\ UNCHANGED <<CONFIG, cups, selected_printer, op, args, result, globals>>

\* get_settings: the handler reads the global CONFIG
GetSettings ==
    /\ ServerFree
    /\ backlog # <<>>
    /\ op' = "get_settings"
    /\ args' = Head(backlog)
    /\ backlog' = Tail(backlog)
    /\ result' = [kind |-> "settings", seen |-> CONFIG]
    /\ UNCHANGED <<CONFIG, cups, selected_printer, globals>>

\* save_settings_api up to save_config: the merged configuration is
\* written to the file, or the write fails and the handler answers 500
SaveSettingsApi(new_config, written) ==
    /\ ServerFree
    /\ backlog = <<>>
    /\ args' = [old |-> CONFIG, merged_config |-> MergedConfig(CONFIG, new_config),
                written |-> written, before |-> GlobalState]
    /\ op' = AfterSaveConfig(written)
    /\ result' = [kind |-> "saved", success |-> FALSE]
    /\ UNCHANGED <<CONFIG, cups, selected_printer, backlog, globals>>

\* save_config_with_global_update: CONFIG.clear()
ConfigClear ==
    /\ op = "save:written"
    /\ CONFIG' = EmptyConfig
    /\ op' = "save:cleared"
    /\ UNCHANGED <<cups, selected_printer, args, result, backlog, globals>>

\* save_config_with_global_update: CONFIG.update(new_config)
ConfigUpdate ==
    /\ op = "save:cleared"
    /\ CONFIG' = args.merged_config
    /\ op' = "save:updated"
    /\ UNCHANGED <<cups, selected_printer, args, result, backlog, globals>>

\* lines 718-754: the instance is initialized again and the globals are
\* rebuilt; an exception of get_label_sizes ends the handler with an error
\* after the instance and PRINTERS were replaced
ApplySettings ==
    /\ op = "save:updated"
    /\ \E applied \in {ApplyOf(CONFIG, cups)} :
          /\ selected_printer' = applied.selected_printer
          /\ server' = applied.server
          /\ initialization_errors' = applied.initialization_errors
          /\ PRINTERS' = applied.PRINTERS
          /\ IF applied.ok
             THEN /\ LABEL_SIZES' = applied.LABEL_SIZES
                  /\ FONTS' = applied.FONTS
                  /\ CONFIG_ERRORS' = applied.CONFIG_ERRORS
             ELSE UNCHANGED <<LABEL_SIZES, FONTS, CONFIG_ERRORS>>
          /\ result' = [kind |-> "saved", success |-> applied.ok]
    /\ op' = "save_settings_api"
    /\ UNCHANGED <<CONFIG, cups, args, backlog>>

\* validate_settings_api: the candidate is tried on a temporary instance,
\* whose initialize names the candidate's server to libcups
ValidateSettingsApi(new_config) ==
    /\ ServerFree
    /\ backlog = <<>>
    /\ op' = "validate_settings_api"
    /\ args' = [new_config |-> new_config, before |-> GlobalState]
    /\ server' = initialize_server(new_config)
    /\ result' = [kind |-> "validation", errors |-> validate_settings(new_config, cups)]
    /\ UNCHANGED <<CONFIG, cups, selected_printer, backlog, initialization_errors,
                   PRINTERS, LABEL_SIZES, FONTS, CONFIG_ERRORS>>

\* lines 806-824: the preview configuration of a GET request, a copy of
\* CONFIG with the query parameters use_cups and server when given
QueryConfig(config, use_cups_param, server_param) ==
    [initialize_config(config) EXCEPT
        !.USE_CUPS = IF use_cups_param = None THEN @ ELSE use_cups_param = "1",
        !.SERVER = IF server_param = None THEN @ ELSE server_param]

\* get_settings_printers with the preview configuration of the request
GetSettingsPrinters(preview_config, include_disabled) ==
    /\ ServerFree
    /\ backlog = <<>>
    /\ op' = "get_settings_printers"
    /\ args' = [new_config |-> preview_config, before |-> GlobalState]
    /\ \E temp_instance \in {InstanceOf(preview_config, cups)} :
          /\ server' = temp_instance.server
          /\ result' = [kind |-> "printers", printers |-> temp_instance.printers,
                        all_media_sizes |-> AllSizes(temp_instance, cups, preview_config,
                                                     ~include_disabled)]
    /\ UNCHANGED <<CONFIG, cups, selected_printer, backlog, initialization_errors,
                   PRINTERS, LABEL_SIZES, FONTS, CONFIG_ERRORS>>

\* get_printer_media, POST with a configuration in the body; the print
\* server of the model reports no media-default, so the default size is
\* the configured one
GetPrinterMedia(printer_name, new_config) ==
    /\ ServerFree
    /\ backlog = <<>>
    /\ op' = "get_printer_media"
    /\ args' = [new_config |-> new_config, before |-> GlobalState]
    /\ \E temp_instance \in {InstanceOf(new_config, cups)} :
          /\ server' = temp_instance.server
          /\ \E sizes \in {SizesFor(temp_instance, cups, printer_name, new_config, TRUE)} :
                result' = IF sizes.ok
                          THEN [kind |-> "media", success |-> TRUE,
                                label_sizes |-> label_sizes_list_to_dict(sizes.v),
                                default_size |-> new_config.DEFAULT_SIZE]
                          ELSE [kind |-> "media", success |-> FALSE, label_sizes |-> <<>>,
                                default_size |-> <<>>]
    /\ UNCHANGED <<CONFIG, cups, selected_printer, backlog, initialization_errors,
                   PRINTERS, LABEL_SIZES, FONTS, CONFIG_ERRORS>>

PreviewOps == {"validate_settings_api", "get_settings_printers", "get_printer_media"}

\* the handler returns and its response is sent
Answer ==
    /\ op \in {"get_settings", "save_settings_api"} \cup PreviewOps
    /\ op' = "idle"
    /\ args' = <<>>
    /\ result' = Idle
    /\ UNCHANGED <<CONFIG, cups, selected_printer, backlog, globals>>

NextSave ==
    \/ RequestArrives
    \/ GetSettings
    \/ \E new_config \in SaveConfigs, written \in BOOLEAN :
          SaveSettingsApi(new_config, written)
    \/ ConfigClear
    \/ ConfigUpdate
    \/ ApplySettings
    \/ \E new_config \in PreviewConfigs : ValidateSettingsApi(new_config)
    \/ \E new_config \in PreviewConfigs, include_disabled \in BOOLEAN :
          GetSettingsPrinters(new_config, include_disabled)
    \/ \E use_cups_param \in {None, "0", "1"}, server_param \in {None, "cups.example"} :
          GetSettingsPrinters(QueryConfig(CONFIG, use_cups_param, server_param), FALSE)
    \/ \E printer_name \in {None, CupsPrinter}, new_config \in PreviewConfigs :
          GetPrinterMedia(printer_name, new_config)
    \/ Answer

SpecSave == InitSave /\ [][NextSave]_vars

ServerTarget(server_ip) == IF server_ip = None THEN "localhost" ELSE server_ip

isPreviewCall == op \in PreviewOps

\* C25: validating or previewing a candidate configuration leaves the
\* global state untouched: CONFIG, the global instance's selected_printer
\* and initialization_errors, and the CUPS server its later connections go
\* to are the same as before the request.
C25_PreviewFrame ==
    isPreviewCall =>
        /\ CONFIG = args.before.CONFIG
        /\ selected_printer = args.before.selected_printer
        /\ initialization_errors = args.before.initialization_errors
        /\ ServerTarget(server) = ServerTarget(args.before.server)

\* what does hold: the preview leaves everything but the server alone
C25_FrameButServer ==
    isPreviewCall =>
        /\ CONFIG = args.before.CONFIG
        /\ selected_printer = args.before.selected_printer
        /\ initialization_errors = args.before.initialization_errors
        /\ PRINTERS = args.before.PRINTERS
        /\ LABEL_SIZES = args.before.LABEL_SIZES
        /\ FONTS = args.before.FONTS
        /\ CONFIG_ERRORS = args.before.CONFIG_ERRORS

\* a validation of a candidate on another server has been answered and the
\* process now connects to the candidate's server
C25_ServerMoved ==
    /\ op = "validate_settings_api"
    /\ args.before.server = "localhost"
    /\ CONFIG.SERVER = "localhost"
    /\ server = "cups.example"

isSaveCall == op \in SavePositions \cup {"save_settings_api"}

\* C30: when writing the configuration file fails during a settings save,
\* CONFIG, the global instance, PRINTERS, LABEL_SIZES, FONTS and
\* CONFIG_ERRORS keep their previous values and the request reports
\* failure; the globals are replaced only after save_config returned True.
C30_FailedWrite ==
    (isSaveCall /\ ~args.written) =>
        /\ op = "save_settings_api"
        /\ GlobalState = args.before
        /\ result.kind = "saved"
        /\ ~result.success

\* a save of a different configuration whose file write failed
C30_Witness ==
    /\ op = "save_settings_api"
    /\ ~args.written
    /\ args.merged_config # CONFIG
    /\ args.before.CONFIG = CONFIG


\* the configured sizes under their canonical keys
sizesConfigured ==
    [i \in 1..Len(CONFIG.LABEL_SIZES) |->
        <<Canonical(CONFIG.LABEL_SIZES[i][1]).v, CONFIG.LABEL_SIZES[i][2]>>]

\* C26: get_label_sizes never propagates a failure: it returns a list for
\* every shape of configured LABEL_SIZES and LABEL_PRINTABLE_AREA, and when
\* the print-server query fails or there is no printer the list is exactly
\* the configured sizes under their canonical keys.
C26_NeverRaises ==
    isSizesCall =>
        /\ result.ok
        /\ (_should_use_cups(CONFIG) /\ sizesCups = <<>>
            /\ CONFIG.sizes_shape \in {"dict", "list"})
              => result.v = sizesConfigured

\* what does hold: a call that returns falls back to the configured sizes
C26_FallbackWhenReturned ==
    (isSizesCall /\ result.ok /\ _should_use_cups(CONFIG) /\ sizesCups = <<>>
     /\ CONFIG.sizes_shape \in {"dict", "list"})
        => result.v = sizesConfigured

\* a call with the print server down and a configured size whose printable
\* area is a record: the call raised
C26_Raised ==
    /\ isSizesCall
    /\ ~result.ok
    /\ ConnRaises(cups)
    /\ CONFIG.LABEL_SIZES # <<>>


isPrintCall == op = "print_label"

\* the printer get_label_dimensions resolved the label's size with
dimensionsPrinter == _get_printer_name(cups, selected_printer, args.printer)

\* C27: when a print request names no printer, print_label sends the job
\* to the printer get_label_dimensions resolved the pixel size with, the
\* instance's selected printer (the configured one if non-empty, else the
\* CUPS default); with an empty configured PRINTER the job goes to the
\* CUPS default printer and not to a printer named ''.
C27_SamePrinter ==
    (isPrintCall /\ args.printer = None /\ ~ConnRaises(cups)) =>
        /\ print_label_printer(CONFIG, cups, args.printer) = dimensionsPrinter
        /\ (~args.saveRaises /\ ~args.printFail) =>
              /\ result.success
              /\ result.job.printer = dimensionsPrinter

\* what does hold: the two agree unless the configured name is empty
C27_SameUnlessEmpty ==
    (isPrintCall /\ args.printer = None /\ ~ConnRaises(cups) /\ CONFIG.PRINTER # "") =>
        /\ print_label_printer(CONFIG, cups, args.printer) = dimensionsPrinter
        /\ (~args.saveRaises /\ ~args.printFail) =>
              /\ result.success
              /\ result.job.printer = dimensionsPrinter

\* a print with PRINTER = '' and no printer in the request: the size was
\* resolved with the CUPS default, the job was sent to '' and refused
C27_EmptyName ==
    /\ isPrintCall
    /\ args.printer = None
    /\ CONFIG.PRINTER = ""
    /\ ~ConnRaises(cups)
    /\ ~args.saveRaises
    /\ ~args.printFail
    /\ dimensionsPrinter = CupsPrinter
    /\ print_label_printer(CONFIG, cups, args.printer) = ""
    /\ ~result.success


\* the text box at the font size the text is painted with
paintedBox == TextBox(args.text, result.font)

\* C28: in create_label_im the offset of the text is computed from the box
\* of the text measured at the font size used for painting, the one the
\* font fitting returned, and the font is rebuilt only when the fitting
\* changed the font size.
C28_OffsetOfPaintedText ==
    (isImageCall /\ result.kind = "image") =>
        /\ result.text_at = get_label_offset(result.size[1], result.size[2], paintedBox,
                                             args.orientation, MarginsOf(args.font_size))
        /\ result.rebuilt <=> result.font # args.font_size

\* what does hold: the offset is that of the box at the requested size
C28_OffsetOfRequestedSize ==
    (isImageCall /\ result.kind = "image") =>
        /\ result.text_at = get_label_offset(result.size[1], result.size[2],
                                             TextBox(args.text, args.font_size),
                                             args.orientation, MarginsOf(args.font_size))
        /\ result.rebuilt

\* a preview whose text was shrunk and is painted off centre
C28_ShrunkOffCentre ==
    /\ isImageCall
    /\ result.kind = "image"
    /\ result.font < args.font_size
    /\ result.text_at # get_label_offset(result.size[1], result.size[2], paintedBox,
                                         args.orientation, MarginsOf(args.font_size))

\* a preview whose text fitted as requested and whose font was built twice
C28_RebuiltUnchanged ==
    /\ isImageCall
    /\ result.kind = "image"
    /\ result.font = args.font_size
    /\ result.rebuilt


(***************************************************************************)
(* The settings payload: configuration_management.config_to_settings_format *)
(* and settings_format_to_config, and the default font main() stores       *)
(***************************************************************************)
\* a font dict without keys
NoFont == Font(None, None)

RECURSIVE DictOfPairs(_, _, _)
\* {k: v for k, v in cfg_sizes}: a later pair replaces the value of an
\* earlier one with the same key, at the place of the earlier one
DictOfPairs(pairs, i, acc) ==
    IF i > Len(pairs) THEN acc
    ELSE IF \E j \in 1..Len(acc) : acc[j][1] = pairs[i][1]
    THEN DictOfPairs(pairs, i + 1,
                     [j \in 1..Len(acc) |->
                         IF acc[j][1] = pairs[i][1] THEN pairs[i] ELSE acc[j]])
    ELSE DictOfPairs(pairs, i + 1, Append(acc, pairs[i]))

\* lines 133-179: the fields of the payload that the model's CONFIG has
config_to_settings_format(config) ==
    LET default_font == IF config.DEFAULT_FONTS.shape = "list"
                           /\ Len(config.DEFAULT_FONTS.fonts) > 0
                        THEN config.DEFAULT_FONTS.fonts[1]
                        ELSE NoFont
        label_sizes_map ==
            IF ~config.has_PRINTER THEN <<>>
            ELSE IF config.sizes_shape = "list" THEN DictOfPairs(config.LABEL_SIZES, 1, <<>>)
            ELSE IF config.sizes_shape = "dict" THEN config.LABEL_SIZES
            ELSE <<>>
    IN [useCups |-> IF config.has_PRINTER THEN config.USE_CUPS ELSE TRUE,
        server |-> IF config.has_PRINTER /\ config.SERVER # None THEN config.SERVER
                   ELSE "localhost",
        printer |-> IF config.has_PRINTER /\ config.PRINTER # None THEN config.PRINTER
                    ELSE "",
        enabledSizes |-> IF config.has_PRINTER THEN config.ENABLED_SIZES ELSE NoEnabled,
        labelSizes |-> label_sizes_map,
        labelPrintableArea |-> IF config.has_PRINTER /\ config.has_AREA
                               THEN config.LABEL_PRINTABLE_AREA ELSE NoArea,
        printersInclude |-> IF config.has_PRINTER THEN config.PRINTERS_INCLUDE ELSE <<>>,
        printersExclude |-> IF config.has_PRINTER THEN config.PRINTERS_EXCLUDE ELSE <<>>,
        defaultSize |-> config.DEFAULT_SIZE,
        defaultFontFamily |-> IF default_font.family = None THEN "DejaVu Sans"
                              ELSE default_font.family,
        defaultFontStyle |-> IF default_font.style = None THEN "Book"
                             ELSE default_font.style]

\* lines 182-235: DEFAULT_FONTS is always a list of one font dict
settings_format_to_config(settings) ==
    [BaseConfig EXCEPT
        !.has_PRINTER = TRUE,
        !.USE_CUPS = settings.useCups,
        !.SERVER = IF Truthy(settings.server) THEN settings.server ELSE "localhost",
        !.PRINTER = IF Truthy(settings.printer) THEN settings.printer ELSE "",
        !.ENABLED_SIZES = settings.enabledSizes,
        !.sizes_shape = "dict",
        !.LABEL_SIZES = settings.labelSizes,
        !.has_AREA = settings.labelPrintableArea # NoArea,
        !.LABEL_PRINTABLE_AREA = settings.labelPrintableArea,
        !.PRINTERS_INCLUDE = settings.printersInclude,
        !.PRINTERS_EXCLUDE = settings.printersExclude,
        !.DEFAULT_SIZE = settings.defaultSize,
        !.DEFAULT_FONTS =
            FontList(<<Font(IF Truthy(settings.defaultFontFamily)
                            THEN settings.defaultFontFamily ELSE "DejaVu Sans",
                            IF Truthy(settings.defaultFontStyle)
                            THEN settings.defaultFontStyle ELSE "Book")>>)]

\* lines 289-305: the one font dict of either shape
normalize_default_fonts(fonts_value) ==
    IF fonts_value.shape = "list"
    THEN IF fonts_value.fonts # <<>> THEN fonts_value.fonts[1] ELSE NoFont
    ELSE fonts_value.fonts[1]

\* the font is installed
FontExists(fonts, font) ==
    /\ Truthy(font.family)
    /\ Truthy(font.style)
    /\ font.family \in DOMAIN fonts
    /\ font.style \in fonts[font.family]

\* brother_ql_web.main, lines 981-1030: DEFAULT_FONTS as main() leaves it, a
\* single dict; pick is the font random.choice draws
main_default_fonts(config, fonts, pick) ==
    LET default_fonts_list == config.DEFAULT_FONTS.fonts
        n == Len(default_fonts_list)
        found == {i \in 1..n : FontExists(fonts, default_fonts_list[i])}
        first == CHOOSE i \in found : \A j \in found : i <= j
        selected_font ==
            IF found # {} THEN default_fonts_list[first]
            ELSE IF n > 0 THEN default_fonts_list[1]
            ELSE IF DOMAIN fonts # {} THEN pick
            ELSE Font("Unknown", "Regular")
    IN IF selected_font # NoFont THEN FontDict(selected_font) ELSE FontDict(Font("", ""))

NoLabelSizesDetected == Err("No label sizes detected from printer drivers", "", "", "", <<>>)
InvalidDefaultSize(size) == Err("Invalid default label size", "", "", "", size)
NotASingleFont == Err("Not a single font was found", "", "", "", <<>>)
CriticalError == Err("Critical error during initialization", "", "", "", <<>>)

\* lines 958-1038: the errors collected
MainErrors(config, new_config, label_sizes, printers, instance_errors, fonts) ==
    (IF DOMAIN label_sizes = {} THEN <<NoLabelSizesDetected>> ELSE <<>>)
    \o (IF config.DEFAULT_SIZE # <<>> /\ config.DEFAULT_SIZE \in DOMAIN label_sizes
        THEN <<>> ELSE <<InvalidDefaultSize(config.DEFAULT_SIZE)>>)
    \o (IF DOMAIN fonts = {} THEN <<NotASingleFont>> ELSE <<>>)
    \o validate_configuration(fonts, label_sizes, printers, new_config)
    \o instance_errors

\* lines 953-1038 once the label sizes are there
MainGlobals(config, new_config, label_sizes, printers, instance_errors, fonts) ==
    [CONFIG |-> new_config, initialization_errors |-> instance_errors,
     PRINTERS |-> printers, LABEL_SIZES |-> label_sizes, FONTS |-> fonts,
     CONFIG_ERRORS |-> MainErrors(config, new_config, label_sizes, printers,
                                  instance_errors, fonts)]

\* lines 952-1050 for what get_label_sizes did: the except branch leaves
\* safe defaults and the configuration as it was
MainSizes(label_sizes_list, config, c, server_ip, errors, fonts, pick) ==
    IF ~label_sizes_list.ok
    THEN [CONFIG |-> config, initialization_errors |-> errors,
          PRINTERS |-> <<>>, LABEL_SIZES |-> label_sizes_list_to_dict(<<>>),
          FONTS |-> <<>>, CONFIG_ERRORS |-> <<CriticalError>>]
    ELSE MainGlobals(config,
                     [config EXCEPT !.DEFAULT_FONTS = main_default_fonts(config, fonts, pick)],
                     label_sizes_list_to_dict(label_sizes_list.v),
                     get_printers(config, c, server_ip),
                     get_printers_errors(config, c, server_ip, errors), fonts)

\* main, lines 952-1050, after instance.initialize(CONFIG): the globals
\* main() leaves.  The print server of the model reports no media-default,
\* so get_default_label_size is the configured size.  initialize returns
\* '', so line 948 adds nothing.
MainOf(config, c, sel, server_ip, errors, fonts, pick) ==
    MainSizes(get_label_sizes(config, ServerAt(c, server_ip), sel, None), config, c,
              server_ip, errors, fonts, pick)

\* the fonts a configuration file names
FileFonts ==
    { FontList(<<>>), FontList(<<Font("Arial", "Bold")>>),
      FontList(<<Font("Missing", "Bold"), Font("Arial", "Italic")>>),
      FontList(<<Font("DejaVu Sans", "Book")>>), FontList(<<Font(None, "Bold")>>),
      FontList(<<NoFont>>), FontDict(Font("Arial", "Bold")) }

\* the configurations the server is started with
SettingsConfigs ==
    { [BaseConfig EXCEPT !.USE_CUPS = u, !.sizes_shape = ls.shape, !.LABEL_SIZES = ls.sizes,
                         !.LABEL_PRINTABLE_AREA = a, !.DEFAULT_FONTS = f] :
        u \in BOOLEAN, ls \in PrintSizes, a \in CatalogAreas, f \in FileFonts }

\* the fonts random.choice can draw from; nothing is drawn without fonts
FontsOf(fonts) ==
    IF DOMAIN fonts = {} THEN {NoFont}
    ELSE UNION {{Font(family, style) : style \in fonts[family]} : family \in DOMAIN fonts}

\* main() has initialized the instance and goes on to build the globals
InitSettings ==
    /\ CONFIG \in SettingsConfigs
    /\ cups \in RenderCups
    /\ selected_printer = initialize_selected(CONFIG, cups)
    /\ op = "main"
    /\ args = <<>>
    /\ result = Idle
    /\ backlog = <<>>
    /\ StartUp

\* main(), from line 952 until the server runs
Main(fonts, pick) ==
    /\ op = "main"
    /\ \E globals_left \in {MainOf(CONFIG, cups, selected_printer, server,
                                    initialization_errors, fonts, pick)} :
          /\ CONFIG' = globals_left.CONFIG
          /\ initialization_errors' = globals_left.initialization_errors
          /\ PRINTERS' = globals_left.PRINTERS
          /\ LABEL_SIZES' = globals_left.LABEL_SIZES
          /\ FONTS' = globals_left.FONTS
          /\ CONFIG_ERRORS' = globals_left.CONFIG_ERRORS
    /\ op' = "idle"
    /\ args' = [file |-> CONFIG, fonts |-> fonts]
    /\ UNCHANGED <<cups, selected_printer, result, backlog, server>>

\* get_settings, lines 611-616
GetSettingsPayload ==
    /\ op = "idle"
    /\ op' = "settings:get"
    /\ result' = [kind |-> "settings", settings |-> config_to_settings_format(CONFIG)]
    /\ UNCHANGED <<CONFIG, cups, selected_printer, args, backlog, globals>>

\* the payloads a client posts: the one it got, or that with another font
PayloadsFor(config) ==
    { [config_to_settings_format(config) EXCEPT !.defaultFontFamily = f[1],
                                                !.defaultFontStyle = f[2]] :
        f \in {<<config_to_settings_format(config).defaultFontFamily,
                 config_to_settings_format(config).defaultFontStyle>>,
               <<"Arial", "Italic">>, <<"", "">>} }

\* save_settings_api as one step of the serial server; system_fonts are
\* the fonts get_fonts() finds again, those of startup
SaveSettings(payload, written, system_fonts) ==
    /\ op = "idle"
    /\ op' = "settings:save"
    /\ args' = [file |-> args.file, fonts |-> args.fonts, payload |-> payload,
                got |-> config_to_settings_format(CONFIG), before |-> CONFIG]
    /\ IF ~written
       THEN /\ result' = [kind |-> "saved", success |-> FALSE]
            /\ UNCHANGED <<CONFIG, selected_printer, globals>>
       ELSE \E merged_config \in {MergedConfig(CONFIG, settings_format_to_config(payload))} :
            \E applied \in {ApplyWith(merged_config, cups, system_fonts)} :
               /\ CONFIG' = merged_config
               /\ selected_printer' = applied.selected_printer
               /\ server' = applied.server
               /\ initialization_errors' = applied.initialization_errors
               /\ PRINTERS' = applied.PRINTERS
               /\ IF applied.ok
                  THEN /\ LABEL_SIZES' = applied.LABEL_SIZES
                       /\ FONTS' = applied.FONTS
                       /\ CONFIG_ERRORS' = applied.CONFIG_ERRORS
                  ELSE UNCHANGED <<LABEL_SIZES, FONTS, CONFIG_ERRORS>>
               /\ result' = [kind |-> "saved", success |-> applied.ok]
    /\ UNCHANGED <<cups, backlog>>

\* the response is sent; the client keeps nothing on the server
SettingsAnswered ==
    /\ op \in {"settings:get", "settings:save"}
    /\ op' = "idle"
    /\ result' = Idle
    /\ args' = [file |-> args.file, fonts |-> args.fonts]
    /\ UNCHANGED <<CONFIG, cups, selected_printer, backlog, globals>>

NextSettings ==
    \/ \E fonts \in FontMaps : \E pick \in FontsOf(fonts) : Main(fonts, pick)
    \/ GetSettingsPayload
    \/ \E payload \in PayloadsFor(CONFIG), written \in BOOLEAN :
          SaveSettings(payload, written, args.fonts)
    \/ SettingsAnswered

SpecSettings == InitSettings /\ [][NextSettings]_vars


\* the default font the configuration names
configuredFont == normalize_default_fonts(CONFIG.DEFAULT_FONTS)

isNamed(font) == Truthy(font.family) /\ Truthy(font.style)

\* C29: config_to_settings_format reports the configured default font
\* family and style for both stored shapes of DEFAULT_FONTS, the list and
\* the single dict main() stores, so GET /api/settings after startup
\* returns the configured font, and saving the payload just got leaves the
\* default font unchanged.
C29_DefaultFontKept ==
    /\ (op = "settings:get" /\ isNamed(configuredFont)) =>
          /\ result.settings.defaultFontFamily = configuredFont.family
          /\ result.settings.defaultFontStyle = configuredFont.style
    /\ (op = "settings:save" /\ result.success /\ args.payload = args.got
        /\ isNamed(normalize_default_fonts(args.before.DEFAULT_FONTS))) =>
          configuredFont = normalize_default_fonts(args.before.DEFAULT_FONTS)

\* what does hold: the list shape is reported and survives the round trip
C29_ListShapeKept ==
    /\ (op = "settings:get" /\ isNamed(configuredFont)
        /\ CONFIG.DEFAULT_FONTS.shape = "list") =>
          /\ result.settings.defaultFontFamily = configuredFont.family
          /\ result.settings.defaultFontStyle = configuredFont.style
    /\ (op = "settings:save" /\ result.success /\ args.payload = args.got
        /\ isNamed(normalize_default_fonts(args.before.DEFAULT_FONTS))
        /\ args.before.DEFAULT_FONTS.shape = "list") =>
          configuredFont = normalize_default_fonts(args.before.DEFAULT_FONTS)

\* after startup with Arial Bold configured and installed, the settings
\* page is told the built-in font
C29_BuiltInReported ==
    /\ op = "settings:get"
    /\ args.file.DEFAULT_FONTS = FontList(<<Font("Arial", "Bold")>>)
    /\ CONFIG.DEFAULT_FONTS = FontDict(Font("Arial", "Bold"))
    /\ FontExists(FONTS, Font("Arial", "Bold"))
    /\ result.settings.defaultFontFamily = "DejaVu Sans"
    /\ result.settings.defaultFontStyle = "Book"

\* and saving that payload unchanged replaces the configured font
C29_FontReplaced ==
    /\ op = "settings:save"
    /\ result.success
    /\ args.payload = args.got
    /\ args.before.DEFAULT_FONTS = FontDict(Font("Arial", "Bold"))
    /\ CONFIG.DEFAULT_FONTS = FontList(<<Font("DejaVu Sans", "Book")>>)

====
